---- MODULE Spec2Model ----
(***************************************************************************)
(* A model of the copy-on-write B+ tree key-value store: the page codec    *)
(* (pkg/btree/node.go), the node operations and the tree engine (tree.go,  *)
(* both revisions), the page stores the engine runs on and the key-value   *)
(* facade over the file store (db.go).                                     *)
(*                                                                         *)
(* A byte string is modelled run-length: [b |-> byte, len |-> n] is the    *)
(* byte b repeated n times, and the zero-length string is [b |-> 0,        *)
(* len |-> 0].  A page is modelled by its decoded fields (tag, entry       *)
(* count, pointer slots, offset table, records) together with the length   *)
(* of the byte buffer that holds it, so that every position the code       *)
(* computes, and every access the code makes outside the buffer, is        *)
(* computed here as the code computes it.  A failed assertion or an        *)
(* out-of-range access (a Go panic) is the flag ok = FALSE, which every    *)
(* later step of the same operation preserves.                             *)
(***************************************************************************)
EXTENDS Integers, Sequences, FiniteSets, TLC

\* ------------------------------------------------------------------------
\* Program constants
\* ------------------------------------------------------------------------
NodeTypeInternal == 1
NodeTypeLeaf == 2
PageSize == 4096
MaxKeySize == 1000
MaxValSize == 3000
headerSize == 4
ptrSize == 8
offsetSize == 2
kvLenSize == 4
NONE == 65535
Word == 65536

\* ------------------------------------------------------------------------
\* Bounds of the model
\* ------------------------------------------------------------------------
\* number of user operations explored after the initial state
MaxOps == 3
\* number of New/Del calls made on the tests' store
MaxCalls == 5

\* uint16 arithmetic
U16(x) == x % Word

\* Bind(v, F) is F(v): it names an intermediate result v that F uses several
\* times (v := ... ; F's body follows)
Bind(v, F(_)) == F(v)

\* ------------------------------------------------------------------------
\* Byte strings
\* ------------------------------------------------------------------------
Bytes(b, n) == IF n = 0 THEN [b |-> 0, len |-> 0] ELSE [b |-> b, len |-> n]
Empty == Bytes(0, 0)

\* bytes.Compare on run-length strings: -1, 0 or 1
bytesCompare(x, y) ==
    IF x = y THEN 0
    ELSE IF x.len = 0 THEN -1
    ELSE IF y.len = 0 THEN 1
    ELSE IF x.b # y.b THEN (IF x.b < y.b THEN -1 ELSE 1)
    ELSE IF x.len < y.len THEN -1 ELSE 1

\* bytes.Equal
bytesEqual(x, y) == x = y

\* The keys and values the operations draw from: the zero-length key, a
\* one-byte key and keys of the maximum size; a one-byte value and a value of
\* the maximum size.
KeyBytes == {1, 2, 3, 4, 5, 6}
KeyLen(b) == IF b = 1 THEN 1 ELSE MaxKeySize
UserKey(b) == Bytes(b, KeyLen(b))
Keys == {Empty} \cup {UserKey(b) : b \in KeyBytes}
ShortVal == Bytes(7, 1)
MaxVal == Bytes(8, MaxValSize)
Vals == {ShortVal, MaxVal}

\* ------------------------------------------------------------------------
\* Page codec (BNode)
\* ------------------------------------------------------------------------
\* make([]byte, n): a zeroed buffer of n bytes
make(n) ==
    [btype |-> 0, nkeys |-> 0, ptr |-> <<>>, off |-> <<>>, kv |-> <<>>,
     cap |-> n, ok |-> TRUE]

\* BNode{}: the empty page that signals "not found"
Nil == make(0)

len(node) == node.cap

\* the result of a step that panicked
fail(node) == [node EXCEPT !.ok = FALSE]

btype(node) == node.btype
nkeys(node) == node.nkeys

setHeader(node, t, n) ==
    IF node.cap < headerSize THEN fail(node)
    ELSE [node EXCEPT !.btype = t, !.nkeys = n,
                      !.ptr = [i \in 1..n |-> 0],
                      !.off = [i \in 1..n |-> 0],
                      !.kv = [i \in 1..n |-> [key |-> Empty, val |-> Empty]]]

\* getPtr/setPtr assert idx < nkeys
ptrInRange(node, idx) == idx < node.nkeys
getPtr(node, idx) == node.ptr[idx + 1]
setPtr(node, idx, val) ==
    IF ptrInRange(node, idx) THEN [node EXCEPT !.ptr[idx + 1] = val] ELSE fail(node)

\* (a range test that refuses the end offset)
offsetInRange_Strict(node, idx) == idx < node.nkeys

\* getOffset asserts idx <= nkeys; offset 0 is the implicit zero
offsetInRange(node, idx) == idx <= node.nkeys
getOffset(node, idx) == IF idx = 0 THEN 0 ELSE node.off[idx]
setOffset(node, idx, offset) ==
    IF 1 <= idx /\ idx <= node.nkeys THEN [node EXCEPT !.off[idx] = offset]
    ELSE fail(node)

\* kvPos asserts idx <= nkeys
kvPosInRange(node, idx) == idx <= node.nkeys
kvPos(node, idx) ==
    U16(headerSize + ptrSize * node.nkeys + offsetSize * node.nkeys + getOffset(node, idx))

\* getKey/getVal assert idx < nkeys and slice the buffer at the record
keyReadable(node, idx) ==
    /\ idx < node.nkeys
    /\ U16(kvPos(node, idx) + kvLenSize) + node.kv[idx + 1].key.len <= node.cap
valReadable(node, idx) ==
    /\ idx < node.nkeys
    /\ U16(kvPos(node, idx) + kvLenSize + node.kv[idx + 1].key.len)
          + node.kv[idx + 1].val.len <= node.cap
getKey(node, idx) == node.kv[idx + 1].key
getVal(node, idx) == node.kv[idx + 1].val

\* used bytes
nbytes(node) == kvPos(node, node.nkeys)

\* ------------------------------------------------------------------------
\* Node operations
\* ------------------------------------------------------------------------
\* nodeAppendKV: pointer slot, length-prefixed record at kvPos(idx), offset
\* idx+1.  The two length words and the key must lie inside the buffer (a
\* slice expression past the end panics); copy() silently cuts a value that
\* does not fit.
nodeAppendKV(new, idx, ptr, key, val) ==
    IF /\ new.ok
       /\ idx < new.nkeys
       /\ U16(kvPos(new, idx) + kvLenSize + key.len) <= new.cap
    THEN [new EXCEPT !.ptr[idx + 1] = ptr,
                     !.kv[idx + 1] = [key |-> key, val |-> val],
                     !.off[idx + 1] =
                         U16(getOffset(new, idx) + kvLenSize + U16(key.len + val.len))]
    ELSE fail(new)

\* one iteration of nodeAppendRange: entry src of old becomes entry dst of new
appendStep(new, old, dst, src) ==
    IF old.ok /\ keyReadable(old, src) /\ valReadable(old, src)
    THEN nodeAppendKV(new, dst, getPtr(old, src), getKey(old, src), getVal(old, src))
    ELSE fail(new)

\* the loop of nodeAppendRange from iteration i on; it stops at the first panic
RECURSIVE appendLoop(_, _, _, _, _, _)
appendLoop(new, old, dstNew, srcOld, n, i) ==
    IF i >= n \/ ~new.ok THEN new
    ELSE appendLoop(appendStep(new, old, U16(dstNew + i), U16(srcOld + i)),
                    old, dstNew, srcOld, n, i + 1)

nodeAppendRange(new, old, dstNew, srcOld, n) == appendLoop(new, old, dstNew, srcOld, n, 0)

leafInsert(new, old, idx, key, val) ==
    nodeAppendRange(
        nodeAppendKV(
            nodeAppendRange(setHeader(new, NodeTypeLeaf, U16(old.nkeys + 1)), old, 0, 0, idx),
            idx, 0, key, val),
        old, U16(idx + 1), idx, U16(old.nkeys - idx))

leafUpdate(new, old, idx, key, val) ==
    nodeAppendRange(
        nodeAppendKV(
            nodeAppendRange(setHeader(new, NodeTypeLeaf, old.nkeys), old, 0, 0, idx),
            idx, 0, key, val),
        old, U16(idx + 1), U16(idx + 1), U16(old.nkeys - (idx + 1)))

\* (a scan that always answers the last index)
lookupFrom_Last(node, key, i) == U16(node.nkeys - 1)

\* the linear scan of nodeLookupLE from index i on
RECURSIVE lookupFrom(_, _, _)
lookupFrom(node, key, i) ==
    IF i >= node.nkeys THEN U16(node.nkeys - 1)
    ELSE IF bytesCompare(getKey(node, i), key) = 0 THEN i
    ELSE IF bytesCompare(getKey(node, i), key) > 0 THEN U16(i - 1)
    ELSE lookupFrom(node, key, i + 1)

\* the largest index whose key is <= key, or NONE (0xFFFF)
nodeLookupLE(node, key) ==
    IF len(node) = 0 THEN NONE
    ELSE IF node.nkeys = 0 THEN NONE
    ELSE lookupFrom(node, key, 0)

\* nodeLookupLE reads the keys up to the index where the scan stops; it panics
\* when one of them lies outside the buffer
lookupOk(node, key) ==
    \/ len(node) = 0
    \/ /\ node.ok
       /\ \A i \in 0..(node.nkeys - 1) :
            (\A j \in 0..(i - 1) : bytesCompare(getKey(node, j), key) < 0)
                => keyReadable(node, i)

\* left_bytes() of nodeSplit2 for a given nleft
leftBytes(old, nleft) ==
    U16(headerSize + ptrSize * nleft + offsetSize * nleft + getOffset(old, nleft))

\* right_bytes() of nodeSplit2 for a given nleft
rightBytes(old, nleft) == U16(nbytes(old) - leftBytes(old, nleft) + headerSize)

\* for left_bytes() > PageSize { nleft-- }
RECURSIVE fitLeft(_, _)
fitLeft(old, nleft) ==
    IF leftBytes(old, nleft) > PageSize THEN fitLeft(old, nleft - 1) ELSE nleft

\* (a split that leaves nleft where the left half first fits)
fitRight_Stay(old, nleft) == nleft

\* for right_bytes() > PageSize { nleft++ }; getOffset panics past nkeys
RECURSIVE fitRight(_, _)
fitRight(old, nleft) ==
    IF nleft > old.nkeys THEN nleft
    ELSE IF rightBytes(old, nleft) > PageSize THEN fitRight(old, nleft + 1)
    ELSE nleft

\* the two halves once nleft is settled; right must fit in a page
splitAt(left, right, old, nleft) ==
    Bind(nodeAppendRange(setHeader(left, old.btype, nleft), old, 0, 0, nleft), LAMBDA l :
    Bind(nodeAppendRange(setHeader(right, old.btype, old.nkeys - nleft), old, 0, nleft,
                         old.nkeys - nleft), LAMBDA r :
        IF l.ok /\ r.ok /\ nbytes(r) <= PageSize THEN [left |-> l, right |-> r]
        ELSE [left |-> fail(l), right |-> fail(r)]))

\* nodeSplit2: [left, right]; a failed assertion fails both halves
nodeSplit2(left, right, old) ==
    Bind(fitLeft(old, old.nkeys \div 2), LAMBDA n0 :
        IF ~(old.ok /\ old.nkeys >= 2 /\ n0 >= 1)
        THEN [left |-> fail(left), right |-> fail(right)]
        ELSE Bind(fitRight(old, n0), LAMBDA nleft :
                IF nleft < old.nkeys THEN splitAt(left, right, old, nleft)
                ELSE [left |-> fail(left), right |-> fail(right)]))

\* (the buffer is handed on at its full length)
reslice_Keep(node, n) == node

\* old[:PageSize]
reslice(node, n) == IF n <= node.cap THEN [node EXCEPT !.cap = n] ELSE fail(node)

\* nodeSplit3 after the first nodeSplit2
split3Left(s1) ==
    IF ~(s1.left.ok /\ s1.right.ok) THEN [n |-> 0, split |-> <<>>]
    ELSE IF nbytes(s1.left) <= PageSize
    THEN [n |-> 2, split |-> <<reslice(s1.left, PageSize), s1.right>>]
    ELSE Bind(nodeSplit2(make(PageSize), make(PageSize), s1.left), LAMBDA s2 :
            IF s2.left.ok /\ s2.right.ok /\ nbytes(s2.left) <= PageSize
            THEN [n |-> 3, split |-> <<s2.left, s2.right, s1.right>>]
            ELSE [n |-> 0, split |-> <<>>])

\* (a nodeSplit3 that hands the page back as it is, whatever its size)
nodeSplit3_NoSplit(old) == [n |-> 1, split |-> <<old>>]

\* nodeSplit3: [n, split] with n in 1..3 pages; n = 0 when it panicked
nodeSplit3(old) ==
    IF ~old.ok \/ old.cap < PageSize THEN [n |-> 0, split |-> <<>>]
    ELSE IF nbytes(old) <= PageSize THEN [n |-> 1, split |-> <<reslice(old, PageSize)>>]
    ELSE split3Left(nodeSplit2(make(2 * PageSize), make(PageSize), old))

nodeMerge(dest, left, right) ==
    nodeAppendRange(
        nodeAppendRange(setHeader(dest, left.btype, U16(left.nkeys + right.nkeys)),
                        left, 0, 0, left.nkeys),
        right, left.nkeys, 0, right.nkeys)

nodeReplace2Kid(new, old, idx, ptr, key) ==
    nodeAppendRange(
        nodeAppendKV(
            nodeAppendRange(setHeader(new, NodeTypeInternal, U16(old.nkeys - 1)),
                            old, 0, 0, idx),
            idx, ptr, key, Empty),
        old, U16(idx + 1), U16(idx + 2), U16(old.nkeys - (idx + 1)))

\* ------------------------------------------------------------------------
\* Page stores (the Get/New/Del callbacks of BTree)
\* ------------------------------------------------------------------------
\* A store is [kind, pages, next, ok, calls, legacy, io, opened]:
\*   kind   "fresh": ids 1, 2, 3, ... never handed out twice, Del unbinds;
\*          "mock":  the map of the tests (MockStorage), id = len(pages) + 1;
\*          "file":  the facade's callbacks over the backing file;
\*   pages  the bytes bound to each id (file: written at each offset);
\*   next   the next fresh id (file: the size of the file);
\*   ok     FALSE once the running operation has panicked;
\*   calls  the callbacks the running operation has made, in order;
\*   legacy TRUE for the engine revision the facade is built on;
\*   io     the backing file: "ok", "failing" (reads and writes return an
\*          error) or "closed" (the handle is closed);
\*   opened the size the file had when it was opened.
newStore(kind) ==
    [kind |-> kind, pages |-> <<>>, next |-> IF kind = "file" THEN 0 ELSE 1,
     ok |-> TRUE, calls |-> <<>>, legacy |-> (kind = "file"), io |-> "ok",
     opened |-> 0]

allocated(st) == DOMAIN st.pages

logCall(st, op, id) == [st EXCEPT !.calls = Append(@, [op |-> op, id |-> id])]

\* a panic inside the running operation
panic(st) == [st EXCEPT !.ok = FALSE]

\* the id the next New returns: the next fresh id, the file's end offset, or
\* the size of the tests' map plus one
mockNewId(st) == Cardinality(DOMAIN st.pages) + 1
newId(st) == IF st.kind = "mock" THEN mockNewId(st) ELSE st.next

\* New: [st, id].  The file store writes the page at the end of the file
\* (stat.Size()) and returns that offset; it panics when Stat or Write
\* returns an error.
storeNew(st, node) ==
    IF ~(st.ok /\ node.ok /\ st.io = "ok")
    THEN [st |-> panic(logCall(st, "New", newId(st))), id |-> newId(st)]
    ELSE [st |-> [logCall(st, "New", newId(st))
                      EXCEPT !.pages = (newId(st) :> node) @@ @,
                             !.next = IF st.kind = "file" THEN @ + len(node) ELSE @ + 1],
          id |-> newId(st)]

\* what Get returns: the in-memory store returns nil for an unbound id; the
\* file store reads a page at the offset and panics when Read returns an
\* error (a short read, a failing or a closed file)
storeGetOk(st, id) ==
    st.kind = "file" => (st.io = "ok" /\ id \in DOMAIN st.pages /\ id + PageSize <= st.next)
storeRead(st, id) ==
    IF id \in DOMAIN st.pages THEN st.pages[id] ELSE Nil
\* (a Get that takes the page out of the store)
storeGet_Take(st, id) ==
    [logCall(st, "Get", id) EXCEPT !.ok = st.ok /\ storeGetOk(st, id),
                                   !.pages = [p \in (DOMAIN @) \ {id} |-> @[p]]]

storeGet(st, id) ==
    [logCall(st, "Get", id) EXCEPT !.ok = st.ok /\ storeGetOk(st, id)]

\* Del: the in-memory store removes the binding; the file store does nothing
storeDel(st, id) ==
    [logCall(st, "Del", id)
        EXCEPT !.pages = IF st.kind = "file" THEN @ ELSE [p \in (DOMAIN @) \ {id} |-> @[p]]]

\* ------------------------------------------------------------------------
\* Tree engine: insertion
\* ------------------------------------------------------------------------
\* (a link to a page that is freed as soon as it is linked)
kidStep_Freed(new, kid, dst, a) ==
    [node |-> IF a.st.ok /\ keyReadable(kid, 0)
              THEN nodeAppendKV(new, dst, a.id, getKey(kid, 0), Empty)
              ELSE fail(new),
     st |-> [a.st EXCEPT !.pages = [p \in (DOMAIN @) \ {a.id} |-> @[p]]]]

\* one iteration of the loop over kids: the page is stored, then its first
\* key and its id are appended at dst
kidStep(new, kid, dst, a) ==
    [node |-> IF a.st.ok /\ keyReadable(kid, 0)
              THEN nodeAppendKV(new, dst, a.id, getKey(kid, 0), Empty)
              ELSE fail(new),
     st |-> a.st]

\* for i, node := range kids { nodeAppendKV(new, idx+i, tree.New(node), node.getKey(0), nil) }
\* from the i-th kid on: [node, st]
RECURSIVE kidsLoop(_, _, _, _)
kidsLoop(r, idx, kids, i) ==
    IF i > Len(kids) \/ ~r.st.ok \/ ~r.node.ok THEN r
    ELSE kidsLoop(kidStep(r.node, kids[i], U16(idx + i - 1), storeNew(r.st, kids[i])),
                  idx, kids, i + 1)

\* the tail of nodeReplaceKidN: the entries of old after idx
kidsTail(r, old, idx, inc) ==
    [node |-> nodeAppendRange(r.node, old, U16(idx + inc), U16(idx + 1),
                              U16(old.nkeys - (idx + 1))),
     st |-> r.st]

\* nodeReplaceKidN with its last line left out: the links after idx are not
\* copied into the new page
nodeReplaceKidN_NoTail(st, new, old, idx, kids) ==
    kidsLoop([node |-> nodeAppendRange(
                           setHeader(new, NodeTypeInternal, U16(old.nkeys + Len(kids) - 1)),
                           old, 0, 0, idx),
              st |-> st],
             idx, kids, 1)

\* nodeReplaceKidN: [node, st]
nodeReplaceKidN(st, new, old, idx, kids) ==
    kidsTail(
        kidsLoop([node |-> nodeAppendRange(
                               setHeader(new, NodeTypeInternal, U16(old.nkeys + Len(kids) - 1)),
                               old, 0, 0, idx),
                  st |-> st],
                 idx, kids, 1),
        old, idx, Len(kids))

\* a panic inside treeInsert
insertPanic(st) == [node |-> fail(make(2 * PageSize)), st |-> panic(st)]

\* the end of treeInsert's internal case: the kid's new page r.node is split
\* and the link to the kid replaced
insertLink(node, idx, kptr, r) ==
    IF ~r.st.ok THEN insertPanic(r.st)
    ELSE Bind(nodeSplit3(r.node), LAMBDA sp :
            IF sp.n = 0 THEN insertPanic(r.st)
            ELSE nodeReplaceKidN(storeDel(r.st, kptr), make(2 * PageSize), node, idx,
                                 sp.split))

\* treeInsert: [node, st], the new (possibly oversized) page, not yet stored
RECURSIVE treeInsert(_, _, _, _)
RECURSIVE insertAt(_, _, _, _, _)
RECURSIVE insertKid(_, _, _, _, _, _, _)
treeInsert(st, node, key, val) ==
    IF ~st.ok THEN insertPanic(st)
    ELSE IF len(node) = 0
    THEN IF st.legacy THEN insertPanic(st)
         ELSE [node |-> nodeAppendKV(setHeader(make(2 * PageSize), NodeTypeLeaf, 1),
                                     0, 0, key, val),
               st |-> st]
    ELSE IF ~lookupOk(node, key) THEN insertPanic(st)
    ELSE insertAt(st, node, key, val, nodeLookupLE(node, key))

\* treeInsert once idx is looked up
insertAt(st, node, key, val, idx) ==
    CASE node.btype = NodeTypeLeaf ->
            IF idx = NONE
            THEN IF st.legacy THEN insertPanic(st)
                 ELSE [node |-> leafInsert(make(2 * PageSize), node, 0, key, val), st |-> st]
            ELSE IF bytesEqual(key, getKey(node, idx))
            THEN [node |-> leafUpdate(make(2 * PageSize), node, idx, key, val), st |-> st]
            ELSE [node |-> leafInsert(make(2 * PageSize), node, U16(idx + 1), key, val),
                  st |-> st]
      [] node.btype = NodeTypeInternal ->
            IF ~ptrInRange(node, idx) THEN insertPanic(st)
            ELSE insertKid(storeGet(st, getPtr(node, idx)), node, key, val, idx,
                           getPtr(node, idx), storeRead(st, getPtr(node, idx)))
      [] OTHER -> [node |-> make(2 * PageSize), st |-> st]

\* treeInsert's internal case once the kid is read
insertKid(st, node, key, val, idx, kptr, kid) ==
    IF ~st.ok THEN insertPanic(st)
    ELSE IF len(kid) = 0 /\ ~st.legacy
    THEN [node |-> leafInsert(make(2 * PageSize), node, U16(idx + 1), key, val), st |-> st]
    ELSE insertLink(node, idx, kptr, treeInsert(st, kid, key, val))

\* (the new root is assigned and its page freed afterwards)
setRoot_ThenFree(Root, a) ==
    IF a.st.ok THEN [Root |-> a.id, st |-> storeDel(a.st, a.id)]
    ELSE [Root |-> Root, st |-> a.st]

\* the outcome of an operation that ends with storing the new root
setRoot(Root, a) ==
    IF a.st.ok THEN [Root |-> a.id, st |-> a.st] ELSE [Root |-> Root, st |-> a.st]

\* storing the result of kidsLoop
storeLoop(k) == storeNew(k.st, k.node)

\* (an Insert that adds a root level whether the root was split or not)
insertRoot_Level(Root, st, sp) ==
    IF sp.n = 0 THEN [Root |-> Root, st |-> panic(st)]
    ELSE setRoot(Root,
                 storeLoop(kidsLoop([node |-> setHeader(make(PageSize), NodeTypeInternal, sp.n),
                                     st |-> storeDel(st, Root)],
                                    0, sp.split, 1)))

\* the end of BTree.Insert: the old root is freed, the pages of the split are
\* stored and, if there are several, a new root level is added
insertRoot(Root, st, sp) ==
    IF sp.n = 0 THEN [Root |-> Root, st |-> panic(st)]
    ELSE IF sp.n > 1
    THEN setRoot(Root,
                 storeLoop(kidsLoop([node |-> setHeader(make(PageSize), NodeTypeInternal, sp.n),
                                     st |-> storeDel(st, Root)],
                                    0, sp.split, 1)))
    ELSE setRoot(Root, storeNew(storeDel(st, Root), sp.split[1]))

\* BTree.Insert after treeInsert
insertSplit(Root, r) ==
    IF ~r.st.ok THEN [Root |-> Root, st |-> r.st]
    ELSE insertRoot(Root, r.st, nodeSplit3(r.node))

\* BTree.Insert on [Root, st]
BTreeInsert(Root, st, key, val) ==
    IF Root = 0
    THEN setRoot(Root,
                 storeNew(st, nodeAppendKV(
                                  nodeAppendKV(setHeader(make(PageSize), NodeTypeLeaf, 2),
                                               0, 0, Empty, Empty),
                                  1, 0, key, val)))
    ELSE insertSplit(Root, treeInsert(storeGet(st, Root), storeRead(st, Root), key, val))

\* ------------------------------------------------------------------------
\* Tree engine: search and traversal
\* ------------------------------------------------------------------------
\* a panic inside treeSearch
searchPanic(st) == [val |-> Empty, found |-> FALSE, st |-> panic(st)]

\* treeSearch: [val, found, st]
RECURSIVE treeSearch(_, _, _)
RECURSIVE searchAt(_, _, _, _)
treeSearch(st, node, key) ==
    IF ~st.ok THEN searchPanic(st)
    ELSE IF st.legacy /\ len(node) = 0 THEN searchPanic(st)
    ELSE IF ~lookupOk(node, key) THEN searchPanic(st)
    ELSE IF len(node) < headerSize THEN searchPanic(st)
    ELSE searchAt(st, node, key, nodeLookupLE(node, key))

\* treeSearch once idx is looked up
searchAt(st, node, key, idx) ==
    CASE node.btype = NodeTypeLeaf ->
            IF idx < node.nkeys /\ bytesEqual(getKey(node, idx), key)
            THEN IF valReadable(node, idx)
                 THEN [val |-> getVal(node, idx), found |-> TRUE, st |-> st]
                 ELSE searchPanic(st)
            ELSE [val |-> Empty, found |-> FALSE, st |-> st]
      [] node.btype = NodeTypeInternal ->
            IF ~ptrInRange(node, idx) THEN searchPanic(st)
            ELSE treeSearch(storeGet(st, getPtr(node, idx)),
                            storeRead(st, getPtr(node, idx)), key)
      [] OTHER -> [val |-> Empty, found |-> FALSE, st |-> st]

\* BTree.Search
BTreeSearch(Root, st, key) ==
    IF Root = 0 THEN [val |-> Empty, found |-> FALSE, st |-> st]
    ELSE treeSearch(storeGet(st, Root), storeRead(st, Root), key)

\* the visit calls of a leaf: entries 1 .. nkeys-1, from entry i on
RECURSIVE leafVisits(_, _)
leafVisits(node, i) ==
    IF i >= node.nkeys THEN <<>>
    ELSE <<[key |-> getKey(node, i), val |-> getVal(node, i)]>> \o leafVisits(node, i + 1)

leafVisitsOk(node) ==
    \A i \in 1..(node.nkeys - 1) : keyReadable(node, i) /\ valReadable(node, i)

\* treeTraverse: [out, st], out the visit calls in order; the children of an
\* internal page from child i on
RECURSIVE treeTraverse(_, _, _)
RECURSIVE traverseKids(_, _, _)
treeTraverse(st, node, out) ==
    IF ~st.ok \/ len(node) < headerSize THEN [out |-> out, st |-> panic(st)]
    ELSE CASE node.btype = NodeTypeLeaf ->
                IF leafVisitsOk(node) THEN [out |-> out \o leafVisits(node, 1), st |-> st]
                ELSE [out |-> out, st |-> panic(st)]
           [] node.btype = NodeTypeInternal ->
                traverseKids([out |-> out, st |-> st], node, 0)
           [] OTHER -> [out |-> out, st |-> st]
traverseKids(r, node, i) ==
    IF i >= node.nkeys \/ ~r.st.ok THEN r
    ELSE traverseKids(treeTraverse(storeGet(r.st, getPtr(node, i)),
                                   storeRead(r.st, getPtr(node, i)), r.out),
                      node, i + 1)

\* BTree.Traverse
BTreeTraverse(Root, st) ==
    IF Root = 0 THEN [out |-> <<>>, st |-> st]
    ELSE treeTraverse(storeGet(st, Root), storeRead(st, Root), <<>>)

\* ------------------------------------------------------------------------
\* Tree engine: deletion
\* ------------------------------------------------------------------------
\* sibling.nbytes() + updated.nbytes() - 4
\* (a size test that leaves the sibling out)
mergedBytes_Updated(sibling, updated) == nbytes(updated)

mergedBytes(sibling, updated) == U16(nbytes(sibling) + nbytes(updated) - headerSize)

\* return 0, BNode{}
mergeNone(st) == [dir |-> 0, sibling |-> Nil, st |-> st]

\* the right-hand test of shouldMerge once the sibling is read
mergeRight(st, sibling, updated) ==
    IF ~st.ok \/ len(sibling) < headerSize THEN mergeNone(panic(st))
    ELSE IF mergedBytes(sibling, updated) <= PageSize
    THEN [dir |-> 1, sibling |-> sibling, st |-> st]
    ELSE mergeNone(st)

\* (a right-hand test that reads the kid itself, which is freed by then)
tryRight_Self(st, node, idx, updated) ==
    IF idx + 1 < node.nkeys
    THEN mergeRight(storeGet(st, getPtr(node, idx)),
                    storeRead(st, getPtr(node, idx)), updated)
    ELSE mergeNone(st)

\* if idx+1 < node.nkeys() { ... }; return 0, BNode{}
tryRight(st, node, idx, updated) ==
    IF idx + 1 < node.nkeys
    THEN mergeRight(storeGet(st, getPtr(node, idx + 1)),
                    storeRead(st, getPtr(node, idx + 1)), updated)
    ELSE mergeNone(st)

\* the left-hand test of shouldMerge once the sibling is read
mergeLeft(st, sibling, node, idx, updated) ==
    IF ~st.ok \/ len(sibling) < headerSize THEN mergeNone(panic(st))
    ELSE IF mergedBytes(sibling, updated) <= PageSize
    THEN [dir |-> -1, sibling |-> sibling, st |-> st]
    ELSE tryRight(st, node, idx, updated)

\* shouldMerge: [dir, sibling, st] with dir -1 (left), +1 (right) or 0
shouldMerge(st, node, idx, updated) ==
    IF nbytes(updated) > PageSize \div 4 THEN mergeNone(st)
    ELSE IF idx > 0
    THEN mergeLeft(storeGet(st, getPtr(node, idx - 1)),
                   storeRead(st, getPtr(node, idx - 1)), node, idx, updated)
    ELSE tryRight(st, node, idx, updated)

\* a panic inside nodeDelete, after new is made
deletePanic(st) == [node |-> fail(make(PageSize)), st |-> panic(st)]

\* the page an operation returns, unless one of its steps panicked
done(r) == IF r.node.ok /\ r.st.ok THEN r ELSE [node |-> fail(r.node), st |-> panic(r.st)]

\* nodeReplace2Kid(new, node, idx, tree.New(merged), merged.getKey(0)) once
\* merged is stored
mergeLinked(node, idx, merged, a) ==
    IF ~a.st.ok \/ ~keyReadable(merged, 0) THEN deletePanic(a.st)
    ELSE done([node |-> nodeReplace2Kid(make(PageSize), node, idx, a.id, getKey(merged, 0)),
               st |-> a.st])

\* the merged page replaces the two links idx, idx+1 of node
mergeLink(st, node, idx, merged) == mergeLinked(node, idx, merged, storeNew(st, merged))

\* the switch of nodeDelete
deleteMerge(node, idx, updated, m) ==
    IF ~m.st.ok THEN deletePanic(m.st)
    ELSE IF m.dir < 0
    THEN mergeLink(storeDel(m.st, getPtr(node, idx - 1)), node, idx - 1,
                   nodeMerge(make(PageSize), m.sibling, updated))
    ELSE IF m.dir > 0
    THEN mergeLink(storeDel(m.st, getPtr(node, idx + 1)), node, idx,
                   nodeMerge(make(PageSize), updated, m.sibling))
    ELSE IF updated.nkeys = 0
    THEN IF node.nkeys = 1 /\ idx = 0
         THEN [node |-> setHeader(make(PageSize), NodeTypeInternal, 0), st |-> m.st]
         ELSE deletePanic(m.st)
    ELSE done(nodeReplaceKidN(m.st, make(PageSize), node, idx, <<updated>>))

\* nodeDelete once the kid has been worked on: r = [node, st]
deleteKid(node, idx, kptr, r) ==
    IF ~r.st.ok THEN [node |-> Nil, st |-> r.st]
    ELSE IF len(r.node) = 0 THEN [node |-> Nil, st |-> r.st]
    ELSE deleteMerge(node, idx, r.node, shouldMerge(storeDel(r.st, kptr), node, idx, r.node))

\* treeDelete: [node, st]; node = Nil signals "not found"
RECURSIVE treeDelete(_, _, _)
RECURSIVE deleteAt(_, _, _, _)
RECURSIVE nodeDelete(_, _, _, _)
treeDelete(st, node, key) ==
    IF ~st.ok \/ ~lookupOk(node, key) \/ len(node) < headerSize
    THEN [node |-> Nil, st |-> panic(st)]
    ELSE deleteAt(st, node, key, nodeLookupLE(node, key))

\* treeDelete once idx is looked up
deleteAt(st, node, key, idx) ==
    CASE node.btype = NodeTypeLeaf ->
            IF idx < node.nkeys /\ bytesEqual(getKey(node, idx), key)
            THEN done([node |-> nodeAppendRange(
                                    nodeAppendRange(
                                        setHeader(make(PageSize), NodeTypeLeaf,
                                                  U16(node.nkeys - 1)),
                                        node, 0, 0, idx),
                                    node, idx, U16(idx + 1), U16(node.nkeys - idx - 1)),
                       st |-> st])
            ELSE [node |-> Nil, st |-> st]
      [] node.btype = NodeTypeInternal -> nodeDelete(st, node, idx, key)
      [] OTHER -> [node |-> Nil, st |-> st]

nodeDelete(st, node, idx, key) ==
    IF ~ptrInRange(node, idx) THEN [node |-> Nil, st |-> panic(st)]
    ELSE deleteKid(node, idx, getPtr(node, idx),
                   treeDelete(storeGet(st, getPtr(node, idx)),
                              storeRead(st, getPtr(node, idx)), key))

\* BTree.Delete after treeDelete
deleteRoot(Root, r) ==
    IF ~r.st.ok THEN [Root |-> Root, st |-> r.st]
    ELSE IF len(r.node) > 0 THEN setRoot(Root, storeNew(r.st, r.node))
    ELSE [Root |-> Root, st |-> r.st]

\* BTree.Delete on [Root, st]
BTreeDelete(Root, st, key) ==
    IF Root = 0 THEN [Root |-> Root, st |-> st]
    ELSE deleteRoot(Root, treeDelete(storeGet(st, Root), storeRead(st, Root), key))

\* ------------------------------------------------------------------------
\* The state machine
\* ------------------------------------------------------------------------
VARIABLES
    Root,     \* BTree.Root
    store,    \* the page store behind the Get/New/Del callbacks
    ops,      \* number of Insert/Delete calls made so far
    last,     \* the last Insert/Delete call: [op, key, val]
    read,     \* the Search/Traverse call whose result the caller holds
    ref,      \* reference map: what the caller has stored, key -> value or Absent
    mu,       \* the facade's RWMutex: [writer, readers]
    pc,       \* where each goroutine is in its call: [at, op, key, val, ...]
    unit,     \* a call of one page function on its own: [fn, src, idx, key, out]
    smu       \* the storage's RWMutex: [writer, readers]

vars == <<Root, store, ops, last, read, ref, mu, pc, unit, smu>>

Absent == [b |-> 0, len |-> -1]

\* the goroutines that call concurrently
G == {1, 2}

\* an unlocked RWMutex, and a goroutine that is in no call
Unlocked == [writer |-> 0, readers |-> {}]
NoGo == [at |-> "idle", op |-> "none", key |-> Empty, val |-> Empty,
         root |-> 0, found |-> FALSE, res |-> Empty, want |-> Absent, quiet |-> FALSE,
         wrote |-> {}]

NoCall == [op |-> "none", key |-> Empty, val |-> Empty]
NoRead == [op |-> "none", key |-> Empty, found |-> FALSE, val |-> Empty,
           out |-> <<>>, calls |-> <<>>, ok |-> TRUE]

\* no page function has been called on its own
NoUnit == [fn |-> "none"]

\* the process has aborted (a Go panic is not recovered anywhere)
panicked == ~store.ok \/ ~read.ok

idle == ~panicked /\ read.op = "none"

\* the store as an operation finds it: an empty call log
fresh(st) == [st EXCEPT !.calls = <<>>]

\* the state after one more Insert call, r its outcome
inserted(e, c, r) == [Root |-> r.Root, st |-> r.st, ref |-> [e.ref EXCEPT ![c.key] = c.val]]

\* the state after running the Insert calls of a sequence on an empty tree
RECURSIVE runInserts(_, _, _)
runInserts(e, seq, i) ==
    IF i > Len(seq) THEN e
    ELSE runInserts(inserted(e, seq[i], BTreeInsert(e.Root, fresh(e.st), seq[i].key, seq[i].val)),
                    seq, i + 1)

kv(b, v) == [key |-> UserKey(b), val |-> v]

\* The trees a run starts from: the empty tree; a two-level tree whose root
\* page is full (five leaves); a single leaf that the next large record
\* splits three ways; a two-level tree whose second leaf holds two small
\* records next to a full first leaf (a delete there merges with nothing).
Preloads ==
    { <<>>,
      <<kv(1, MaxVal), kv(2, MaxVal), kv(3, MaxVal), kv(4, MaxVal), kv(5, MaxVal)>>,
      <<kv(2, ShortVal), kv(4, ShortVal)>>,
      <<kv(3, MaxVal), kv(4, ShortVal), kv(5, ShortVal)>> }

emptyTree(kind) ==
    [Root |-> 0, st |-> newStore(kind), ref |-> [k \in Keys |-> Absent]]

InitFrom(e) ==
    /\ Root = e.Root
    /\ store = fresh(e.st)
    /\ ref = e.ref
    /\ ops = 0
    /\ last = NoCall
    /\ read = NoRead
    /\ mu = Unlocked
    /\ pc = [g \in G |-> NoGo]
    /\ unit = NoUnit
    /\ smu = Unlocked

Init == \E seq \in Preloads : InitFrom(runInserts(emptyTree("fresh"), seq, 1))

\* tree.Insert(key, val)
Insert(key, val) ==
    /\ idle
    /\ ops < MaxOps
    /\ \E r \in {BTreeInsert(Root, fresh(store), key, val)} :
            /\ Root' = r.Root
            /\ store' = r.st
    /\ ops' = ops + 1
    /\ last' = [op |-> "Insert", key |-> key, val |-> val]
    /\ ref' = [ref EXCEPT ![key] = val]
    /\ read' = NoRead
    /\ UNCHANGED <<mu, pc, unit, smu>>

\* tree.Delete(key)
Delete(key) ==
    /\ idle
    /\ ops < MaxOps
    /\ \E r \in {BTreeDelete(Root, fresh(store), key)} :
            /\ Root' = r.Root
            /\ store' = r.st
    /\ ops' = ops + 1
    /\ last' = [op |-> "Delete", key |-> key, val |-> Empty]
    /\ ref' = [ref EXCEPT ![key] = Absent]
    /\ read' = NoRead
    /\ UNCHANGED <<mu, pc, unit, smu>>

\* tree.Search(key): the tree and the store are left as they are
Search(key) ==
    /\ idle
    /\ \E r \in {BTreeSearch(Root, fresh(store), key)} :
           read' = [op |-> "Search", key |-> key, found |-> r.found, val |-> r.val,
                    out |-> <<>>, calls |-> r.st.calls, ok |-> r.st.ok]
    /\ UNCHANGED <<Root, store, ops, last, ref, mu, pc, unit, smu>>

\* tree.Traverse(visit), visit recording its arguments
Traverse ==
    /\ idle
    /\ \E r \in {BTreeTraverse(Root, fresh(store))} :
           read' = [op |-> "Traverse", key |-> Empty, found |-> FALSE, val |-> Empty,
                    out |-> r.out, calls |-> r.st.calls, ok |-> r.st.ok]
    /\ UNCHANGED <<Root, store, ops, last, ref, mu, pc, unit, smu>>

\* the caller takes the result of Search or Traverse and goes on
Return ==
    /\ ~panicked
    /\ read.op # "none"
    /\ read' = NoRead
    /\ UNCHANGED <<Root, store, ops, last, ref, mu, pc, unit, smu>>

Next ==
    \/ \E key \in Keys, val \in Vals : Insert(key, val)
    \/ \E key \in Keys : Delete(key)
    \/ \E key \in Keys : Search(key)
    \/ Traverse
    \/ Return

Spec == Init /\ [][Next]_vars

\* ------------------------------------------------------------------------
\* The key-value facade over the file store (db.go)
\* ------------------------------------------------------------------------
\* NewDB over a new, empty file: Root = 0 and no page written
InitDB == InitFrom(emptyTree("file"))

\* db.Put(key, value): tree.Insert under the write lock
DBPut(key, val) ==
    /\ idle
    /\ ops < MaxOps
    /\ \E r \in {BTreeInsert(Root, fresh(store), key, val)} :
            /\ Root' = r.Root
            /\ store' = r.st
    /\ ops' = ops + 1
    /\ last' = [op |-> "Put", key |-> key, val |-> val]
    /\ ref' = [ref EXCEPT ![key] = val]
    /\ read' = NoRead
    /\ UNCHANGED <<mu, pc, unit, smu>>

\* db.Delete(key): tree.Delete under the write lock
DBDelete(key) ==
    /\ idle
    /\ ops < MaxOps
    /\ \E r \in {BTreeDelete(Root, fresh(store), key)} :
            /\ Root' = r.Root
            /\ store' = r.st
    /\ ops' = ops + 1
    /\ last' = [op |-> "Delete", key |-> key, val |-> Empty]
    /\ ref' = [ref EXCEPT ![key] = Absent]
    /\ read' = NoRead
    /\ UNCHANGED <<mu, pc, unit, smu>>

\* db.Get(key): tree.Search under the read lock
DBGet(key) ==
    /\ idle
    /\ \E r \in {BTreeSearch(Root, fresh(store), key)} :
           read' = [op |-> "Get", key |-> key, found |-> r.found, val |-> r.val,
                    out |-> <<>>, calls |-> r.st.calls, ok |-> r.st.ok]
    /\ UNCHANGED <<Root, store, ops, last, ref, mu, pc, unit, smu>>

\* db.Traverse(visit): tree.Traverse under the read lock
DBTraverse ==
    /\ idle
    /\ \E r \in {BTreeTraverse(Root, fresh(store))} :
           read' = [op |-> "Traverse", key |-> Empty, found |-> FALSE, val |-> Empty,
                    out |-> r.out, calls |-> r.st.calls, ok |-> r.st.ok]
    /\ UNCHANGED <<Root, store, ops, last, ref, mu, pc, unit, smu>>

NextDB ==
    \/ \E key \in Keys, val \in Vals : DBPut(key, val)
    \/ \E key \in Keys : DBDelete(key)
    \/ \E key \in Keys : DBGet(key)
    \/ DBTraverse
    \/ Return

SpecDB == InitDB /\ [][NextDB]_vars

\* ------------------------------------------------------------------------
\* Observations of a tree
\* ------------------------------------------------------------------------
\* the records of every leaf below page id, left to right, entry 0 included
RECURSIVE allEntries(_, _)
RECURSIVE kidsEntries(_, _, _)
allEntries(st, id) ==
    IF id \notin DOMAIN st.pages THEN <<>>
    ELSE IF st.pages[id].btype = NodeTypeLeaf THEN st.pages[id].kv
    ELSE kidsEntries(st, st.pages[id], 0)
kidsEntries(st, node, i) ==
    IF i >= node.nkeys THEN <<>>
    ELSE allEntries(st, getPtr(node, i)) \o kidsEntries(st, node, i + 1)

\* the records the tree rooted at R holds
stored(R, st) == IF R = 0 THEN <<>> ELSE allEntries(st, R)

\* how many records of the tree carry key k
timesStored(R, st, k) ==
    Cardinality({i \in DOMAIN stored(R, st) : stored(R, st)[i].key = k})

\* what Search(k) and Traverse return in the tree rooted at R: the result
\* without the callback log
searchResult(R, st, k) ==
    [found |-> BTreeSearch(R, fresh(st), k).found,
     val |-> BTreeSearch(R, fresh(st), k).val,
     ok |-> BTreeSearch(R, fresh(st), k).st.ok]
traverseResult(R, st) ==
    [out |-> BTreeTraverse(R, fresh(st)).out, ok |-> BTreeTraverse(R, fresh(st)).st.ok]

\* the callbacks of a kind that the last Insert/Delete made
callsOf(st, op) == {i \in DOMAIN st.calls : st.calls[i].op = op}

\* the step is a call of Insert / of Delete
InsertStep == ops' = ops + 1 /\ last'.op = "Insert"
DeleteStep == ops' = ops + 1 /\ last'.op = "Delete"

\* the pairs the caller has stored, by the reference map
present == {k \in Keys : ref[k] # Absent}

\* the page the root points at
rootPage == storeRead(store, Root)

\* ------------------------------------------------------------------------
\* Claims
\* ------------------------------------------------------------------------
\* C1: in every state reached by Insert/Delete on a store that hands out fresh
\* non-zero ids, Insert(k, v) followed immediately by Search(k) returns
\* (v, present), for every key and value within the size caps.
C1_InsertThenSearch ==
    (last.op = "Insert" /\ read.op = "Search" /\ read.key = last.key)
        => (read.ok /\ read.found /\ read.val = last.val)

\* C2: Insert(k, v1) followed by Insert(k, v2) and Search(k) returns
\* (v2, present); the second Insert replaces the record in place (the number
\* of entries stays the same) and k is stored exactly once.
C2_UpdateInPlace ==
    [][(last.op = "Insert" /\ store.ok /\ InsertStep /\ last'.key = last.key)
        => /\ store'.ok
           /\ searchResult(Root', store', last'.key)
                = [found |-> TRUE, val |-> last'.val, ok |-> TRUE]
           /\ Len(stored(Root', store')) = Len(stored(Root, store))
           /\ timesStored(Root', store', last'.key) = 1]_vars

\* C3: Insert(k, v) followed by Delete(k) and then Search(k) returns absent,
\* in single-leaf and multi-level trees, also when the delete makes a leaf
\* small enough to be merged with a sibling.
C3_InsertDeleteThenAbsent ==
    [][(last.op = "Insert" /\ store.ok /\ DeleteStep /\ last'.key = last.key)
        => /\ store'.ok
           /\ searchResult(Root', store', last'.key)
                = [found |-> FALSE, val |-> Empty, ok |-> TRUE]]_vars

\* C4: after any sequence of Insert and Delete, Search agrees with the
\* reference map driven by the same sequence: (v, present) exactly when the
\* key's last operation was Insert(k, v), absent otherwise, the empty tree and
\* the zero-length key included.
C4_SearchAgreesWithMap ==
    read.op = "Search"
        => /\ read.ok
           /\ read.found = (ref[read.key] # Absent)
           /\ read.found => read.val = ref[read.key]

\* C5: Insert(k, v) leaves every other stored pair intact: each key k' # k
\* that Search found before the Insert it finds afterwards with the same
\* value, also when the Insert splits a leaf in two or three, splits an
\* internal page or grows a new root level.
C5_InsertKeepsOthers ==
    [][(InsertStep /\ store'.ok)
        => \A k \in Keys \ {last'.key} :
              (searchResult(Root, store, k).ok /\ searchResult(Root, store, k).found)
                  => searchResult(Root', store', k) = searchResult(Root, store, k)]_vars

\* C5 witness: an Insert has returned after storing four pages or more (a
\* three-way leaf split under a new root, or a split of the internal root
\* under a new root level) in a tree that holds other keys.
C5_Witness ==
    /\ last.op = "Insert"
    /\ store.ok
    /\ Cardinality(callsOf(store, "New")) >= 4
    /\ rootPage.btype = NodeTypeInternal
    /\ present \ {last.key} # {}
    /\ \E k \in present \ {last.key} : searchResult(Root, store, k).found

\* the visit calls Traverse must make: one for each stored pair
wanted == {[key |-> k, val |-> ref[k]] : k \in present}

\* C6: after any sequence of Insert and Delete, Traverse calls visit exactly
\* once for each stored key, with its current value, for no other key, and in
\* strictly ascending key order, in trees of one leaf and of several leaves.
C6_TraverseVisitsAll ==
    read.op = "Traverse"
        => /\ read.ok
           /\ {read.out[i] : i \in DOMAIN read.out} = wanted
           /\ \A i, j \in DOMAIN read.out :
                 i < j => bytesCompare(read.out[i].key, read.out[j].key) < 0

\* C7: the zero-length key is an ordinary user key: in every reachable state,
\* the empty tree included, Insert(zero-length key, v) followed by
\* Search(zero-length key) returns (v, present).
C7_ZeroLengthKey ==
    (last.op = "Insert" /\ last.key = Empty /\ read.op = "Search" /\ read.key = Empty)
        => (read.ok /\ read.found /\ read.val = last.val)

\* C8: Delete(k) of a key that is not stored is a no-op in every reachable
\* state: Root is unchanged, no New and no Del call is made, and Traverse and
\* every Search return what they returned before the call.
C8_DeleteAbsentIsNoOp ==
    [][(DeleteStep /\ store.ok /\ ref[last'.key] = Absent)
        => /\ store'.ok
           /\ Root' = Root
           /\ callsOf(store', "New") = {}
           /\ callsOf(store', "Del") = {}
           /\ traverseResult(Root', store') = traverseResult(Root, store)
           /\ \A k \in Keys : searchResult(Root', store', k) = searchResult(Root, store, k)]_vars

\* C9: through the facade over the file store, on a database opened over a
\* new, empty file, Put(k, v) followed by Get(k) returns (v, true), for the
\* very first Put as for the later ones.
C9_PutThenGet ==
    (last.op = "Put" /\ read.op = "Get" /\ read.key = last.key)
        => (read.ok /\ read.found /\ read.val = last.val)

\* C10: every identifier the facade's New callback returns is non-zero, so a
\* stored root is told apart from the value 0 that means "empty tree".
C10_NewIdNonZero ==
    store.kind = "file" => \A i \in callsOf(store, "New") : store.calls[i].id # 0

\* ------------------------------------------------------------------------
\* The in-memory store of the tests (MockStorage), called directly
\* ------------------------------------------------------------------------
\* the pages the calls store: a one-record leaf and a root leaf
MockPages ==
    { nodeAppendKV(setHeader(make(PageSize), NodeTypeLeaf, 1), 0, 0, UserKey(1), ShortVal),
      nodeAppendKV(nodeAppendKV(setHeader(make(PageSize), NodeTypeLeaf, 2), 0, 0, Empty, Empty),
                   1, 0, UserKey(2), ShortVal) }

\* NewMockStorage(): an empty map
InitMock == InitFrom(emptyTree("mock"))

\* mock.New(node)
MockNew(node) ==
    /\ idle
    /\ ops < MaxCalls
    /\ store' = storeNew(fresh(store), node).st
    /\ ops' = ops + 1
    /\ last' = [op |-> "New", key |-> Empty, val |-> Empty]
    /\ UNCHANGED <<Root, read, ref, mu, pc, unit, smu>>

\* mock.Del(ptr) of an allocated page
MockDel(id) ==
    /\ idle
    /\ ops < MaxCalls
    /\ id \in allocated(store)
    /\ store' = storeDel(fresh(store), id)
    /\ ops' = ops + 1
    /\ last' = [op |-> "Del", key |-> Empty, val |-> Empty]
    /\ UNCHANGED <<Root, read, ref, mu, pc, unit, smu>>

NextMock ==
    \/ \E node \in MockPages : MockNew(node)
    \/ \E id \in 1..MaxCalls : MockDel(id)

SpecMock == InitMock /\ [][NextMock]_vars

\* the step is a call of New on the store, and the id it returned
NewStep == ops' = ops + 1 /\ last'.op = "New"
newReturned == store'.calls[1].id

\* C11: in the tests' store, after any interleaving of New and Del calls,
\* each id New returns is non-zero and bound to no page at the moment of the
\* call: no New replaces the bytes of a page that is still allocated.
C11_MockIdsFresh ==
    [][NewStep => (newReturned # 0 /\ newReturned \notin allocated(store))]_vars

\* C12: on a store with fresh non-zero ids, no Insert, Delete, Search or
\* Traverse with keys and values within the caps aborts: no assertion fails
\* and no index or slice is out of range, on any path.
C12_NoAbort == ~panicked

\* ------------------------------------------------------------------------
\* The facade called from several goroutines (db.mu, a sync.RWMutex)
\* ------------------------------------------------------------------------
\* the keys the goroutines use
RWKeys == {UserKey(1), UserKey(2)}

writes == {"Put", "Delete"}
reads == {"Get", "Traverse"}

\* Lock() returns when no goroutine holds the lock; RLock() when no writer does
canLock(m) == m.writer = 0 /\ m.readers = {}
\* (an RLock that lets a reader in while a writer holds the lock)
canRLock_Always(m) == TRUE
canRLock(m) == m.writer = 0

\* a write to key has been called and has not returned
writing(g, key) == pc[g].at # "idle" /\ pc[g].op \in writes /\ pc[g].key = key
\* some write to key has returned
written(key) == \E g \in G : key \in pc[g].wrote

\* what a Get(key) that starts now has to return: the value of the last
\* write to key that returned; quiet while no write to key is in flight
started(g, op, key, val) ==
    [NoGo EXCEPT !.at = "waiting", !.op = op,
                 !.key = IF op = "Traverse" THEN Empty ELSE key,
                 !.val = IF op = "Put" THEN val ELSE Empty,
                 !.want = IF op = "Get" THEN ref[key] ELSE Absent,
                 !.quiet = op = "Get" /\ written(key) /\ \A h \in G \ {g} : ~writing(h, key),
                 !.wrote = pc[g].wrote]

\* goroutine g calls db.Put, db.Delete, db.Get or db.Traverse and reaches
\* the Lock()/RLock() of the method
RWCall(g, op, key, val) ==
    /\ ~panicked
    /\ pc[g].at = "idle"
    /\ op \in writes => ops < MaxOps
    /\ pc' = [h \in G |->
                IF h = g THEN started(g, op, key, val)
                ELSE IF op \in writes /\ pc[h].op = "Get" /\ pc[h].key = key
                     THEN [pc[h] EXCEPT !.quiet = FALSE]
                     ELSE pc[h]]
    /\ ops' = IF op \in writes THEN ops + 1 ELSE ops
    /\ UNCHANGED <<Root, store, last, read, ref, mu, unit, smu>>

\* db.mu.Lock() returns in g
RWLock(g) ==
    /\ pc[g].at = "waiting"
    /\ pc[g].op \in writes
    /\ canLock(mu)
    /\ mu' = [mu EXCEPT !.writer = g]
    /\ pc' = [pc EXCEPT ![g].at = "inside"]
    /\ UNCHANGED <<Root, store, ops, last, read, ref, unit, smu>>

\* db.mu.RLock() returns in g
RWRLock(g) ==
    /\ pc[g].at = "waiting"
    /\ pc[g].op \in reads
    /\ canRLock(mu)
    /\ mu' = [mu EXCEPT !.readers = @ \cup {g}]
    /\ pc' = [pc EXCEPT ![g].at = "inside"]
    /\ UNCHANGED <<Root, store, ops, last, read, ref, unit, smu>>

\* db.tree.Insert(key, value) inside Put
RWPut(g) ==
    /\ ~panicked
    /\ pc[g].at = "inside"
    /\ pc[g].op = "Put"
    /\ \E r \in {BTreeInsert(Root, fresh(store), pc[g].key, pc[g].val)} :
            /\ Root' = r.Root
            /\ store' = r.st
    /\ last' = [op |-> "Put", key |-> pc[g].key, val |-> pc[g].val]
    /\ ref' = [ref EXCEPT ![pc[g].key] = pc[g].val]
    /\ pc' = [pc EXCEPT ![g].at = "ran"]
    /\ UNCHANGED <<ops, read, mu, unit, smu>>

\* db.tree.Delete(key) inside Delete
RWDelete(g) ==
    /\ ~panicked
    /\ pc[g].at = "inside"
    /\ pc[g].op = "Delete"
    /\ \E r \in {BTreeDelete(Root, fresh(store), pc[g].key)} :
            /\ Root' = r.Root
            /\ store' = r.st
    /\ last' = [op |-> "Delete", key |-> pc[g].key, val |-> Empty]
    /\ ref' = [ref EXCEPT ![pc[g].key] = Absent]
    /\ pc' = [pc EXCEPT ![g].at = "ran"]
    /\ UNCHANGED <<ops, read, mu, unit, smu>>

\* db.tree.Search(key) inside Get
RWGet(g) ==
    /\ ~panicked
    /\ pc[g].at = "inside"
    /\ pc[g].op = "Get"
    /\ \E r \in {BTreeSearch(Root, fresh(store), pc[g].key)} :
            /\ pc' = [pc EXCEPT ![g].at = "ran", ![g].found = r.found, ![g].res = r.val]
            /\ store' = [store EXCEPT !.ok = r.st.ok]
    /\ UNCHANGED <<Root, ops, last, read, ref, mu, unit, smu>>

\* db.tree.Traverse(visit) inside Traverse
RWTraverse(g) ==
    /\ ~panicked
    /\ pc[g].at = "inside"
    /\ pc[g].op = "Traverse"
    /\ \E r \in {BTreeTraverse(Root, fresh(store))} :
            /\ pc' = [pc EXCEPT ![g].at = "ran", ![g].found = r.out # <<>>]
            /\ store' = [store EXCEPT !.ok = r.st.ok]
    /\ UNCHANGED <<Root, ops, last, read, ref, mu, unit, smu>>

\* the deferred db.mu.Unlock() runs and the write returns
RWUnlock(g) ==
    /\ ~panicked
    /\ pc[g].at = "ran"
    /\ pc[g].op \in writes
    /\ mu' = [mu EXCEPT !.writer = 0]
    /\ pc' = [pc EXCEPT ![g] = [NoGo EXCEPT !.wrote = pc[g].wrote \cup {pc[g].key}]]
    /\ UNCHANGED <<Root, store, ops, last, read, ref, unit, smu>>

\* the deferred db.mu.RUnlock() runs and the read returns
RWRUnlock(g) ==
    /\ ~panicked
    /\ pc[g].at = "ran"
    /\ pc[g].op \in reads
    /\ mu' = [mu EXCEPT !.readers = @ \ {g}]
    /\ pc' = [pc EXCEPT ![g] = [NoGo EXCEPT !.wrote = pc[g].wrote]]
    /\ UNCHANGED <<Root, store, ops, last, read, ref, unit, smu>>

NextRW ==
    \/ \E g \in G, op \in writes \cup reads, key \in RWKeys, val \in Vals :
            RWCall(g, op, key, val)
    \/ \E g \in G : RWLock(g)
    \/ \E g \in G : RWRLock(g)
    \/ \E g \in G : RWPut(g)
    \/ \E g \in G : RWDelete(g)
    \/ \E g \in G : RWGet(g)
    \/ \E g \in G : RWTraverse(g)
    \/ \E g \in G : RWUnlock(g)
    \/ \E g \in G : RWRUnlock(g)

SpecRW == InitDB /\ [][NextRW]_vars

\* goroutine g is inside the tree: its lock call has returned, its unlock
\* has not run
inTree(g) == pc[g].at \in {"inside", "ran"}

\* C13: the facade serialises writers against everything: while a Put or a
\* Delete is inside the tree no other Put, Delete, Get or Traverse is; Get
\* and Traverse overlap only with each other.
C13_WritersExclusive ==
    \A g \in G : (inTree(g) /\ pc[g].op \in writes) =>
        \A h \in G \ {g} : ~inTree(h)

\* a Put has run and still holds the lock while the other goroutine's Get
\* waits at RLock
C13_Witness ==
    \E g \in G, h \in G :
        /\ pc[g].op = "Put" /\ pc[g].at = "ran"
        /\ pc[h].op = "Get" /\ pc[h].at = "waiting"

\* the Get of goroutine g has run, no write to its key was in flight while
\* it was, and some write to the key had returned before it started
quietGet(g) ==
    ~panicked /\ pc[g].op = "Get" /\ pc[g].at = "ran" /\ pc[g].quiet

\* C14: the facade is linearizable in writer order: when Put(k, v) (or
\* Delete(k)) has returned before Get(k) starts and no other write to k
\* happens in between, Get returns (v, present) (or absent), whatever calls
\* on other keys run concurrently.
C14_GetSeesLastWrite ==
    \A g \in G : quietGet(g) =>
        IF pc[g].want = Absent THEN ~pc[g].found
        ELSE pc[g].found /\ pc[g].res = pc[g].want

\* ------------------------------------------------------------------------
\* Insert called from several goroutines on one BTree, without a lock
\* ------------------------------------------------------------------------
\* the keys of each goroutine: pairwise distinct
raceKeys(g) == IF g = 1 THEN {UserKey(1), UserKey(3)} ELSE {UserKey(2), UserKey(4)}

\* a tree over an empty store, shared by the goroutines
InitRace == InitFrom(emptyTree("fresh"))

\* tree.Insert(key, val) in goroutine g reads tree.Root (unsynchronised)
RaceRead(g, key, val) ==
    /\ ~panicked
    /\ ops < MaxOps
    /\ pc[g].at = "idle"
    /\ key \in raceKeys(g)
    /\ ref[key] = Absent
    /\ pc' = [pc EXCEPT ![g] = [NoGo EXCEPT !.at = "racing", !.op = "Insert",
                                            !.key = key, !.val = val, !.root = Root]]
    /\ ops' = ops + 1
    /\ UNCHANGED <<Root, store, last, read, ref, mu, unit, smu>>

\* the rest of tree.Insert in goroutine g: it builds the new pages from the
\* root it has read and assigns tree.Root (unsynchronised), then returns
RaceWrite(g) ==
    /\ ~panicked
    /\ pc[g].at = "racing"
    /\ \E r \in {BTreeInsert(pc[g].root, fresh(store), pc[g].key, pc[g].val)} :
            /\ Root' = r.Root
            /\ store' = r.st
    /\ last' = [op |-> "Insert", key |-> pc[g].key, val |-> pc[g].val]
    /\ ref' = [ref EXCEPT ![pc[g].key] = pc[g].val]
    /\ pc' = [pc EXCEPT ![g] = NoGo]
    /\ UNCHANGED <<ops, read, mu, unit, smu>>

NextRace ==
    \/ \E g \in G, key \in Keys, val \in Vals : RaceRead(g, key, val)
    \/ \E g \in G : RaceWrite(g)

SpecRace == InitRace /\ [][NextRace]_vars

\* every goroutine has returned from its calls
allReturned == ~panicked /\ \A g \in G : pc[g].at = "idle"

\* C15: Insert may be called concurrently on one BTree without a lock as
\* long as the keys are pairwise distinct: once all calls have returned,
\* Search finds every inserted key with its own value.
C15_ConcurrentInsertsKept ==
    allReturned =>
        \A k \in present :
            searchResult(Root, store, k) = [found |-> TRUE, val |-> ref[k], ok |-> TRUE]

\* ------------------------------------------------------------------------
\* The life cycle of the facade: I/O errors, Close, NewDB on the same file
\* ------------------------------------------------------------------------
\* storage.Close(): the file handle is closed
closeStore(st) == [st EXCEPT !.io = "closed"]

\* (a NewStorage whose writes start again at offset 0)
reopenStore_Rewind(st) == [st EXCEPT !.io = "ok", !.next = 0, !.opened = st.next]
\* storage.NewStorage(path) on an existing file: O_RDWR|O_CREATE, the
\* content and the size of the file are kept
reopenStore(st) == [st EXCEPT !.io = "ok", !.opened = st.next]

\* (a NewDB that takes the last page of the file as the root)
openRoot_Last(st) == IF st.next = 0 THEN 0 ELSE st.next - PageSize
\* the Root of the tree NewDB builds: the BTree literal sets no Root
openRoot(st) == 0

\* what Put and Delete hand to their caller: nil when the tree call
\* returns; a panic of a callback is not recovered
outcome(st) == IF st.ok THEN "nil" ELSE "panic"

\* the backing file starts to fail: Read, Write and Stat return an error
IOFault ==
    /\ idle
    /\ store.io = "ok"
    /\ store' = [store EXCEPT !.io = "failing"]
    /\ UNCHANGED <<Root, ops, last, read, ref, mu, pc, unit, smu>>

\* db.Close()
DBClose ==
    /\ idle
    /\ store.io # "closed"
    /\ store' = closeStore(fresh(store))
    /\ last' = [op |-> "Close", key |-> Empty, val |-> Empty]
    /\ UNCHANGED <<Root, ops, read, ref, mu, pc, unit, smu>>

\* NewDB(path) on the file of a closed database
DBOpen ==
    /\ idle
    /\ store.io = "closed"
    /\ store' = reopenStore(fresh(store))
    /\ Root' = openRoot(store)
    /\ last' = [op |-> "Open", key |-> Empty, val |-> Empty]
    /\ UNCHANGED <<ops, read, ref, mu, pc, unit, smu>>

NextFile ==
    \/ \E key \in Keys, val \in Vals : DBPut(key, val)
    \/ \E key \in Keys : DBDelete(key)
    \/ \E key \in Keys : DBGet(key)
    \/ DBTraverse
    \/ Return
    \/ IOFault
    \/ DBClose
    \/ DBOpen

SpecFile == InitDB /\ [][NextFile]_vars

\* the step is a call of Put or Delete, of Get, of Traverse
WriteStep == ops' = ops + 1 /\ last'.op \in {"Put", "Delete"}
GetStep == read.op = "none" /\ read'.op = "Get"
TraverseStep == read.op = "none" /\ read'.op = "Traverse"

\* the call of the step has read or written the backing file
usedFile(st) == \E i \in DOMAIN st.calls : st.calls[i].op \in {"Get", "New"}

\* C16: a read or write of the backing file that fails during Put or Delete
\* reaches the caller as a non-nil error: the process does not abort and
\* the call is not reported as a success.
C16_IOErrorReturned ==
    [][(WriteStep /\ store.io = "failing" /\ usedFile(store'))
            => outcome(store') = "error"]_vars

\* C17: after Close every later Put, Get, Delete or Traverse reports
\* NotOpen (Get: absence, Traverse: no visit); none aborts the process and
\* none reports success.
C17_ClosedReportsNotOpen ==
    [][store.io = "closed" =>
            /\ WriteStep => outcome(store') = "NotOpen"
            /\ GetStep => (read'.ok /\ ~read'.found)
            /\ TraverseStep => (read'.ok /\ read'.out = <<>>)]_vars

newIds(st) == SelectSeq(st.calls, LAMBDA c : c.op = "New")
\* the end offset of page p
pageEnd(st, p) == p + len(st.pages[p])

\* C19: the file-backed New writes each page at the end of the file and
\* returns that offset: every id lies at or past the end of every page
\* written before, ids strictly increase, pages never overlap and no
\* written page is overwritten, also after a non-empty file was re-opened.
C19_FileAllocateAppends ==
    [][/\ \A p \in allocated(store) :
              p \in allocated(store') /\ store'.pages[p] = store.pages[p]
       /\ WriteStep =>
            /\ \A i \in DOMAIN newIds(store') : \A p \in allocated(store) :
                    newIds(store')[i].id >= pageEnd(store, p)
            /\ \A i \in DOMAIN newIds(store') : \A j \in DOMAIN newIds(store') :
                    i < j => newIds(store')[i].id < newIds(store')[j].id
            /\ newIds(store') # <<>> => newIds(store')[1].id = store.next
       /\ \A p \in allocated(store') : \A q \in allocated(store') :
              p < q => pageEnd(store', p) <= q]_vars

\* a Put on a non-empty file that was opened again has written several
\* pages past the old content
C19_Witness ==
    /\ ~panicked
    /\ last.op = "Put"
    /\ store.opened > 0
    /\ Len(newIds(store)) > 1
    /\ \A i \in DOMAIN newIds(store) : newIds(store)[i].id >= store.opened

\* the keys at index 0 of every leaf below page id, left to right: the
\* entries the leaf loop of treeTraverse starts after
RECURSIVE skippedKeys(_, _)
RECURSIVE kidsSkipped(_, _, _)
skippedKeys(st, id) ==
    IF id \notin DOMAIN st.pages THEN <<>>
    ELSE IF st.pages[id].btype = NodeTypeLeaf
         THEN IF st.pages[id].nkeys > 0 THEN <<getKey(st.pages[id], 0)>> ELSE <<>>
         ELSE kidsSkipped(st, st.pages[id], 0)
kidsSkipped(st, node, i) ==
    IF i >= node.nkeys THEN <<>>
    ELSE skippedKeys(st, getPtr(node, i)) \o kidsSkipped(st, node, i + 1)

\* C20: Traverse never hands the sentinel to visit: when the caller has not
\* stored the zero-length key no visit call receives it, and every entry
\* Traverse skips at index 0 of a leaf is the sentinel, never a key of the
\* caller.
C20_SkipsOnlySentinel ==
    (read.op = "Traverse" /\ read.ok /\ Root # 0 /\ ref[Empty] = Absent) =>
        /\ \A i \in DOMAIN read.out : read.out[i].key # Empty
        /\ \A i \in DOMAIN skippedKeys(store, Root) :
                /\ skippedKeys(store, Root)[i] = Empty
                /\ skippedKeys(store, Root)[i] \notin present

\* ------------------------------------------------------------------------
\* Structure of the stored tree
\* ------------------------------------------------------------------------
\* every record of the page lies inside its buffer
untruncated(node) ==
    \A i \in 0..(node.nkeys - 1) : keyReadable(node, i) /\ valReadable(node, i)

\* the page fits: its used bytes are within the page size and its buffer
fits(node) == nbytes(node) <= PageSize /\ nbytes(node) <= len(node) /\ untruncated(node)

\* C21: after any sequence of Insert and Delete, every page that was passed
\* to New (leaf or internal, made by Insert or by Delete, an internal page
\* rebuilt by Delete with a changed separator key included) uses at most
\* PageSize bytes and holds its records untruncated.
C21_StoredPagesFit == \A p \in allocated(store) : fits(store.pages[p])

\* Delete(k4) has returned on the tree whose root held the separators "" and
\* k4 over the leaves ["", k3] and [k4, k5]: the root was rebuilt with the
\* separator k5
C21_Witness ==
    /\ ~panicked
    /\ ops = 1
    /\ last.op = "Delete"
    /\ last.key = UserKey(4)
    /\ rootPage.btype = NodeTypeInternal
    /\ rootPage.nkeys = 2
    /\ getKey(rootPage, 1) = UserKey(5)

\* the ids reachable from page id through the child links of internal pages
RECURSIVE reach(_, _)
reach(st, id) ==
    IF id \notin DOMAIN st.pages THEN {id}
    ELSE IF st.pages[id].btype = NodeTypeInternal
    THEN {id} \cup UNION {reach(st, getPtr(st.pages[id], i)) : i \in 0..(st.pages[id].nkeys - 1)}
    ELSE {id}

\* the pages of the tree
treePages == IF Root = 0 THEN {} ELSE reach(store, Root)

\* C22: after every Insert or Delete returns: if Root # 0 then Root names an
\* allocated page tagged leaf or internal; every internal page reachable
\* from Root has at least one entry; every child id stored in a reachable
\* internal page names an allocated page (no dangling child).
C22_TreeIsWellFormed ==
    ~panicked =>
        /\ Root # 0 =>
              /\ Root \in allocated(store)
              /\ store.pages[Root].btype \in {NodeTypeLeaf, NodeTypeInternal}
        /\ \A p \in treePages :
              /\ p \in allocated(store)
              /\ store.pages[p].btype = NodeTypeInternal => store.pages[p].nkeys >= 1

\* a Delete has returned after freeing a leaf below an internal root and
\* linking its replacement
C22_Witness ==
    /\ ~panicked
    /\ last.op = "Delete"
    /\ Root # 0
    /\ rootPage.btype = NodeTypeInternal
    /\ callsOf(store, "Del") # {}
    /\ Cardinality(treePages) >= 3

\* the keys of the page are in strictly increasing order
sortedPage(node) ==
    \A i \in 0..(node.nkeys - 2) : bytesCompare(getKey(node, i), getKey(node, i + 1)) < 0

\* C23: after any sequence of Insert and Delete (inserting the zero-length
\* key included), the keys of every page reachable from Root are in strictly
\* increasing unsigned-lexicographic order; no page holds a key twice.
C23_KeysStrictlyIncreasing ==
    ~panicked => \A p \in treePages \cap allocated(store) : sortedPage(store.pages[p])

\* the keys stored in the leaves below page id
keysBelow(st, id) == {allEntries(st, id)[j].key : j \in DOMAIN allEntries(st, id)}

\* entry i of the internal page: its key is the first key of child i and
\* bounds the keys below child i from below, the next key from above
separates(st, node, i) ==
    /\ getPtr(node, i) \in allocated(st)
    /\ st.pages[getPtr(node, i)].nkeys >= 1
    /\ getKey(node, i) = getKey(st.pages[getPtr(node, i)], 0)
    /\ \A k \in keysBelow(st, getPtr(node, i)) :
          /\ bytesCompare(k, getKey(node, i)) >= 0
          /\ (i + 1 < node.nkeys) => bytesCompare(k, getKey(node, i + 1)) < 0

\* C24: after any sequence of Insert and Delete, in every reachable internal
\* page with keys k0..k(n-1) and children c0..c(n-1), key i is the first key
\* of child ci and every key stored below ci is >= ki and, when i+1 < n,
\* < k(i+1).
C24_SeparatorsBoundSubtrees ==
    ~panicked =>
        \A p \in treePages \cap allocated(store) :
            store.pages[p].btype = NodeTypeInternal =>
                \A i \in 0..(store.pages[p].nkeys - 1) : separates(store, store.pages[p], i)

\* the pages on the leftmost path from page id down to the leftmost leaf
RECURSIVE leftPath(_, _)
leftPath(st, id) ==
    IF id \notin DOMAIN st.pages THEN {}
    ELSE IF st.pages[id].btype = NodeTypeInternal /\ st.pages[id].nkeys >= 1
    THEN {id} \cup leftPath(st, getPtr(st.pages[id], 0))
    ELSE {id}

\* C25: after any sequence of Insert and Delete (of the zero-length key
\* included) that leaves Root # 0, entry 0 of the root and of every page on
\* the leftmost path down to the leftmost leaf has the zero-length key, so
\* nodeLookupLE on the root never returns "none" (0xFFFF): Delete never
\* removes the sentinel.
C25_SentinelStays ==
    (~panicked /\ Root # 0) =>
        /\ \A p \in leftPath(store, Root) :
              store.pages[p].nkeys >= 1 /\ getKey(store.pages[p], 0) = Empty
        /\ \A k \in Keys : nodeLookupLE(rootPage, k) # NONE

\* C26: after every Insert or Delete returns, the ids that are allocated and
\* not freed are exactly the pages reachable from Root: every page the
\* operation replaced (the old root included) has been freed and no
\* unreachable page stays allocated.
C26_AllocatedIsReachable == ~panicked => allocated(store) = treePages

\* the calls of kind op among the first j calls of the operation
callsUpTo(st, op, j) == {i \in callsOf(st, op) : i <= j}

\* C27: within every Insert and every Delete, for each page on the modified
\* path the New call that allocates its replacement comes before the Del
\* call that frees the original: no Del is made before a New of its own has
\* been made.
C27_NewBeforeDel ==
    (~panicked /\ last.op \in {"Insert", "Delete"}) =>
        \A j \in callsOf(store, "Del") :
            Cardinality(callsUpTo(store, "New", j)) >= Cardinality(callsUpTo(store, "Del", j))

\* the last callback the operation made
lastCall(st) == st.calls[Len(st.calls)]

\* C28: within every Insert and every Delete the assignment to Root is the
\* last step: every New and Del call of the operation precedes it, and the
\* id assigned is that of a page the same operation allocated and that is
\* still allocated when the operation returns.
C28_RootAssignedLast ==
    [][((InsertStep \/ DeleteStep) /\ ~panicked' /\ Root' # Root) =>
            /\ store'.calls # <<>>
            /\ lastCall(store') = [op |-> "New", id |-> Root']
            /\ Root' \in allocated(store')]_vars

\* a Delete below an internal root has returned: the leaf and the root were
\* replaced and Root names the page stored last
C28_Witness ==
    /\ ~panicked
    /\ last.op = "Delete"
    /\ Len(store.calls) >= 5
    /\ lastCall(store).id = Root
    /\ callsOf(store, "Del") # {}

\* the calls from the i-th on are made on allocated ids, alloc being the ids
\* allocated when the i-th call is made: New binds its id, Del needs a bound
\* id and unbinds it, Get needs a bound id
RECURSIVE lifecycleOk(_, _, _)
lifecycleOk(calls, i, alloc) ==
    IF i > Len(calls) THEN TRUE
    ELSE IF calls[i].op = "New" THEN lifecycleOk(calls, i + 1, alloc \cup {calls[i].id})
    ELSE IF calls[i].op = "Del"
    THEN calls[i].id \in alloc /\ lifecycleOk(calls, i + 1, alloc \ {calls[i].id})
    ELSE calls[i].id \in alloc /\ lifecycleOk(calls, i + 1, alloc)

\* the step is a call of Search or Traverse
ReadStep == read.op = "none" /\ read'.op # "none"

\* C29: each page id goes Unborn -> Allocated -> Freed: over any sequence of
\* operations on a store with fresh ids the engine calls Get only on ids
\* that are allocated at that moment, and Del only on allocated ids, at most
\* once per id.
C29_PageLifecycle ==
    [][/\ (InsertStep \/ DeleteStep) => lifecycleOk(store'.calls, 1, allocated(store))
       /\ ReadStep => lifecycleOk(read'.calls, 1, allocated(store))]_vars

\* a Delete has returned in which shouldMerge read a sibling after the kid
\* was freed
C29_Witness ==
    /\ ~panicked
    /\ last.op = "Delete"
    /\ \E i \in callsOf(store, "Del") : \E j \in callsOf(store, "Get") : i < j

\* C30: every buffer Insert or Delete passes to New is exactly PageSize bytes
\* long: the double-size transient buffers of the insertion and the
\* double-size left half of a split are never passed to New.
C30_StoredBuffersArePages == \A p \in allocated(store) : len(store.pages[p]) = PageSize

\* an Insert has returned after splitting a page: the pages it stored were
\* cut from double-size buffers
C30_Witness ==
    /\ ~panicked
    /\ last.op = "Insert"
    /\ Cardinality(callsOf(store, "New")) >= 3
    /\ \A i \in callsOf(store, "New") : store.calls[i].id \in allocated(store)

\* ------------------------------------------------------------------------
\* The page functions called on their own (the unit tests of node_test.go
\* and tree_test.go): a run draws a page and applies one function to it
\* ------------------------------------------------------------------------
\* number of entries of a drawn page
MaxEntries == 4

\* The records a drawn page holds: entry i has the key of byte i, so the keys
\* of a page increase strictly; a key is one byte or MaxKeySize bytes long
\* (the first may be the zero-length key), a value is one byte, a few dozen
\* bytes or MaxValSize bytes long.
MidVal == Bytes(9, 64)
unitKeyLens == {0, 1, MaxKeySize}
unitVals == {Bytes(9, 1), MidVal, Bytes(9, MaxValSize)}
unitShapes(n) == {s \in [1..n -> unitKeyLens \X unitVals] :
                      \A i \in 2..n : s[i][1] # 0}

\* for i := 0; i < nkeys; i++ { nodeAppendKV(node, i, ptr, key, val) }
RECURSIVE fill(_, _, _)
fill(node, s, i) ==
    IF i > Len(s) THEN node
    ELSE fill(nodeAppendKV(node, i - 1, IF node.btype = NodeTypeLeaf THEN 0 ELSE 100 + i,
                           Bytes(i, s[i][1]),
                           IF node.btype = NodeTypeLeaf THEN s[i][2] ELSE Empty),
              s, i + 1)

\* a page of the given type built in a double-size buffer, as the tests and
\* the insertion build them
built(t, s) == fill(setHeader(make(2 * PageSize), t, Len(s)), s, 1)

\* the pages a run draws from: every leaf, and every internal page (no
\* values), whose used bytes fit the buffer
unitLeaves ==
    {p \in UNION {{built(NodeTypeLeaf, s) : s \in unitShapes(n)} : n \in 0..MaxEntries} :
        p.ok /\ nbytes(p) <= 2 * PageSize}
unitInternals ==
    UNION {{built(NodeTypeInternal, s) :
                s \in {x \in unitShapes(n) : \A i \in 1..n : x[i][2] = MidVal}} :
           n \in 1..MaxEntries}
unitPages == unitLeaves \cup unitInternals

\* the indices and the probe keys a call is made with
unitIdx == 0..(MaxEntries + 1)
unitProbes == {Bytes(b, l) : b \in 0..(MaxEntries + 1), l \in unitKeyLens}

\* the records of a page in order: child id, key and value of each entry
entries(node) ==
    [i \in 1..node.nkeys |-> [ptr |-> node.ptr[i], key |-> node.kv[i].key,
                              val |-> node.kv[i].val]]

\* the records respect the caps on key and value size
capped(node) ==
    \A i \in 1..node.nkeys :
        node.kv[i].key.len <= MaxKeySize /\ node.kv[i].val.len <= MaxValSize

InitUnit ==
    /\ Root = 0
    /\ store = newStore("fresh")
    /\ ref = [k \in Keys |-> Absent]
    /\ ops = 0
    /\ last = NoCall
    /\ read = NoRead
    /\ mu = Unlocked
    /\ pc = [g \in G |-> NoGo]
    /\ smu = Unlocked
    /\ \E src \in unitPages : unit = [fn |-> "none", src |-> src]

unitCall == unit.fn = "none"

\* nsplit, split := nodeSplit3(src, cfg)
UnitSplit3 ==
    /\ unitCall
    /\ unit' = [fn |-> "nodeSplit3", src |-> unit.src, out |-> nodeSplit3(unit.src)]
    /\ UNCHANGED <<Root, store, ops, last, read, ref, mu, pc, smu>>

\* nodeSplit2(left, right, src, cfg) with a left buffer of one or two pages
\* (nodeSplit3 passes both) and a right buffer of one page
UnitSplit2(n) ==
    /\ unitCall
    /\ unit' = [fn |-> "nodeSplit2", src |-> unit.src, left |-> make(n),
                out |-> nodeSplit2(make(n), make(PageSize), unit.src)]
    /\ UNCHANGED <<Root, store, ops, last, read, ref, mu, pc, smu>>

\* the child id a call links in
unitPtr == 200

\* nodeReplace2Kid(new, src, idx, ptr, key) with new a page buffer, as
\* nodeDelete calls it
UnitReplace2Kid(idx, key) ==
    /\ unitCall
    /\ btype(unit.src) = NodeTypeInternal
    /\ unit' = [fn |-> "nodeReplace2Kid", src |-> unit.src, idx |-> idx, key |-> key,
                out |-> nodeReplace2Kid(make(PageSize), unit.src, idx, unitPtr, key)]
    /\ UNCHANGED <<Root, store, ops, last, read, ref, mu, pc, smu>>

\* the siblings a merge may pick: stored pages of one entry
leafSiblings == {reslice(p, PageSize) : p \in {q \in unitLeaves : q.nkeys = 1}}
internalSiblings == {reslice(p, PageSize) : p \in {q \in unitInternals : q.nkeys = 1}}
unitSiblings == leafSiblings \cup internalSiblings

\* the parent of a merge: three kids, kid idx just freed, its neighbours
\* stored under the ids the parent holds for them
unitParent == built(NodeTypeInternal, [i \in 1..3 |-> <<1, MidVal>>])
unitStore(idx, l, r) ==
    [newStore("fresh") EXCEPT
        !.pages = [id \in {getPtr(unitParent, i) : i \in {idx - 1, idx + 1} \cap 0..2} |->
                       IF idx < 2 /\ id = getPtr(unitParent, idx + 1) THEN r ELSE l],
        !.next = getPtr(unitParent, 2) + 1]

\* the merge of nodeDelete once shouldMerge has answered: [left, right, out]
merged(sel, updated) ==
    IF sel.dir < 0
    THEN [left |-> sel.sibling, right |-> updated,
          out |-> nodeMerge(make(PageSize), sel.sibling, updated)]
    ELSE IF sel.dir > 0
    THEN [left |-> updated, right |-> sel.sibling,
          out |-> nodeMerge(make(PageSize), updated, sel.sibling)]
    ELSE [left |-> Nil, right |-> Nil, out |-> Nil]

\* mergeDir, sibling := shouldMerge(tree, node, idx, updated) and the
\* nodeMerge that follows it, updated being the drawn page
UnitMerge(idx, l, r) ==
    /\ unitCall
    /\ btype(l) = btype(unit.src) /\ btype(r) = btype(unit.src)
    /\ \E sel \in {shouldMerge(unitStore(idx, l, r), unitParent, idx, unit.src)} :
          unit' = [fn |-> "nodeMerge", src |-> unit.src, idx |-> idx, dir |-> sel.dir,
                   sibling |-> sel.sibling, m |-> merged(sel, unit.src)]
    /\ UNCHANGED <<Root, store, ops, last, read, ref, mu, pc, smu>>

\* idx := nodeLookupLE(src, key)
UnitLookup(key) ==
    /\ unitCall
    /\ unit' = [fn |-> "nodeLookupLE", src |-> unit.src, key |-> key,
                ok |-> lookupOk(unit.src, key), out |-> nodeLookupLE(unit.src, key)]
    /\ UNCHANGED <<Root, store, ops, last, read, ref, mu, pc, smu>>

\* the values a call writes: uint16 offsets and child ids
unitWrites == {0, 7, NONE}

\* what a reading accessor returns: [ok, out], ok = FALSE when it panicked
got(ok, out) == [ok |-> ok, out |-> IF ok THEN out ELSE 0]

\* each accessor called with the index idx on the drawn page, and each
\* setter followed by its getter
UnitAccess(idx, v) ==
    /\ unitCall
    /\ unit' = [fn |-> "access", src |-> unit.src, idx |-> idx, val |-> v,
                getPtr |-> got(ptrInRange(unit.src, idx), getPtr(unit.src, idx)),
                setPtr |-> setPtr(unit.src, idx, v),
                getOffset |-> got(offsetInRange(unit.src, idx), getOffset(unit.src, idx)),
                setOffset |-> setOffset(unit.src, idx, v),
                kvPos |-> got(kvPosInRange(unit.src, idx), kvPos(unit.src, idx)),
                getKey |-> got(keyReadable(unit.src, idx), getKey(unit.src, idx)),
                getVal |-> got(valReadable(unit.src, idx), getVal(unit.src, idx))]
    /\ UNCHANGED <<Root, store, ops, last, read, ref, mu, pc, smu>>

NextUnit ==
    \/ UnitSplit3
    \/ \E idx \in unitIdx, v \in unitWrites : UnitAccess(idx, v)
    \/ \E key \in unitProbes : UnitLookup(key)
    \/ \E idx \in 0..2, l \in unitSiblings, r \in unitSiblings : UnitMerge(idx, l, r)
    \/ \E idx \in unitIdx, key \in unitProbes : UnitReplace2Kid(idx, key)
    \/ \E n \in {PageSize, 2 * PageSize} : UnitSplit2(n)

SpecUnit == InitUnit /\ [][NextUnit]_vars

\* the records of the first n returned pages, one after the other
RECURSIVE concat(_, _)
concat(split, n) == IF n = 0 THEN <<>> ELSE concat(split, n - 1) \o entries(split[n])

\* C31: for every page whose records respect the caps and whose used bytes
\* are at most 2 x PageSize, nodeSplit3 returns 1, 2 or 3 pages: 1 exactly
\* when the page fits in PageSize (the page itself, same entries); otherwise
\* every returned page has at least one entry and at most PageSize used
\* bytes, and the returned pages' entries one after the other are the
\* entries of the page.
C31_Split3Partitions ==
    (unit.fn = "nodeSplit3" /\ capped(unit.src) /\ nbytes(unit.src) <= 2 * PageSize) =>
        /\ unit.out.n \in {1, 2, 3}
        /\ unit.out.n = 1 <=> nbytes(unit.src) <= PageSize
        /\ unit.out.n = 1 => entries(unit.out.split[1]) = entries(unit.src)
        /\ unit.out.n > 1 =>
              \A i \in 1..unit.out.n :
                  unit.out.split[i].nkeys >= 1 /\ nbytes(unit.out.split[i]) <= PageSize
        /\ concat(unit.out.split, unit.out.n) = entries(unit.src)

\* every record of the page lies inside its buffer
readable(node) ==
    \A i \in 0..(node.nkeys - 1) : keyReadable(node, i) /\ valReadable(node, i)

\* the two halves are src cut in two at left.n
halves(src, out) ==
    /\ out.left.ok /\ out.right.ok
    /\ 1 <= out.left.nkeys /\ 1 <= out.right.nkeys
    /\ out.left.nkeys + out.right.nkeys = src.nkeys
    /\ btype(out.left) = btype(src) /\ btype(out.right) = btype(src)
    /\ nbytes(out.right) <= PageSize
    /\ readable(out.left) /\ readable(out.right)
    /\ entries(out.left) = SubSeq(entries(src), 1, out.left.nkeys)
    /\ entries(out.right) = SubSeq(entries(src), out.left.nkeys + 1, src.nkeys)

C33_Replace2KidLinks ==
    (/\ unit.fn = "nodeReplace2Kid"
     /\ unit.src.nkeys >= 2
     /\ unit.idx + 1 < unit.src.nkeys) =>
        /\ unit.out.ok
        /\ unit.out.nkeys = unit.src.nkeys - 1
        /\ entries(unit.out) =
              SubSeq(entries(unit.src), 1, unit.idx)
                  \o <<[ptr |-> unitPtr, key |-> unit.key, val |-> Empty]>>
                  \o SubSeq(entries(unit.src), unit.idx + 3, unit.src.nkeys)

\* C34: nodeMerge(dst, left, right) produces a page with left's tag and
\* left.n + right.n entries, left's then right's in order; whenever
\* shouldMerge selects a sibling the merged page's used bytes are
\* sibling.nbytes + updated.nbytes - 4 and at most PageSize.
C34_MergeConcatenates ==
    (unit.fn = "nodeMerge" /\ unit.dir # 0) =>
        /\ unit.m.out.ok
        /\ btype(unit.m.out) = btype(unit.m.left)
        /\ unit.m.out.nkeys = unit.m.left.nkeys + unit.m.right.nkeys
        /\ entries(unit.m.out) = entries(unit.m.left) \o entries(unit.m.right)
        /\ readable(unit.m.out)
        /\ nbytes(unit.m.out) = nbytes(unit.sibling) + nbytes(unit.src) - headerSize
        /\ nbytes(unit.m.out) <= PageSize

\* shouldMerge has picked the left sibling for a page that is not empty, and
\* the two are merged
C34_Witness ==
    /\ unit.fn = "nodeMerge"
    /\ unit.dir = -1
    /\ unit.src.nkeys >= 1
    /\ unit.m.out.ok
    /\ unit.m.out.nkeys = unit.src.nkeys + 1

\* the indices of the page whose key is <= key
atMost(node, key) == {i \in 0..(node.nkeys - 1) : bytesCompare(getKey(node, i), key) <= 0}

\* C37: for every page with strictly increasing keys and every probe key,
\* nodeLookupLE returns the largest index whose key is <= the probe (the
\* matching index on an exact match, n - 1 when every key is <= the probe)
\* and 0xFFFF when every key is greater or the page has no entries.
C37_LookupLargestLE ==
    (unit.fn = "nodeLookupLE" /\ sortedPage(unit.src)) =>
        /\ unit.ok
        /\ IF atMost(unit.src, unit.key) = {} THEN unit.out = NONE
           ELSE /\ unit.out \in atMost(unit.src, unit.key)
                /\ \A i \in atMost(unit.src, unit.key) : i <= unit.out

\* a lookup has stopped inside the page, between two of its keys
C37_Witness ==
    /\ unit.fn = "nodeLookupLE"
    /\ unit.src.nkeys >= 3
    /\ unit.out >= 1 /\ unit.out < unit.src.nkeys - 1
    /\ getKey(unit.src, unit.out) # unit.key

\* C40: for a page with n entries getPtr, setPtr, getKey and getVal abort
\* when idx >= n; getOffset and kvPos accept idx <= n, getOffset(0) being 0,
\* and abort when idx > n; setOffset aborts when idx = 0 or idx > n; for
\* indices in range the value written by setPtr/setOffset is the value read
\* back by getPtr/getOffset.
C40_AccessorsFailLoudly ==
    unit.fn = "access" =>
        /\ unit.getPtr.ok <=> unit.idx < unit.src.nkeys
        /\ unit.setPtr.ok <=> unit.idx < unit.src.nkeys
        /\ unit.getKey.ok <=> unit.idx < unit.src.nkeys
        /\ unit.getVal.ok <=> unit.idx < unit.src.nkeys
        /\ unit.getOffset.ok <=> unit.idx <= unit.src.nkeys
        /\ unit.kvPos.ok <=> unit.idx <= unit.src.nkeys
        /\ unit.idx = 0 => unit.getOffset.out = 0
        /\ unit.setOffset.ok <=> (1 <= unit.idx /\ unit.idx <= unit.src.nkeys)
        /\ unit.setPtr.ok => getPtr(unit.setPtr, unit.idx) = unit.val
        /\ unit.setOffset.ok => getOffset(unit.setOffset, unit.idx) = unit.val

\* the accessors have been called with idx = n on a page that has entries:
\* getOffset and setOffset went through, setPtr aborted
C40_Witness ==
    /\ unit.fn = "access"
    /\ unit.src.nkeys >= 2
    /\ unit.idx = unit.src.nkeys
    /\ unit.getOffset.ok /\ unit.setOffset.ok /\ ~unit.setPtr.ok
    /\ unit.val # 0

\* ------------------------------------------------------------------------
\* Deletion, depth and the read-only operations
\* ------------------------------------------------------------------------
\* the calls of a Delete show a merge: after the kid was freed a sibling was
\* read and then freed too
mergedIn(calls) ==
    \E i, j, k \in DOMAIN calls :
        /\ i < j /\ j < k
        /\ calls[i].op = "Del" /\ calls[j].op = "Get" /\ calls[k].op = "Del"
        /\ calls[k].id = calls[j].id

\* the ids a Delete freed
freedIn(calls) == {calls[i].id : i \in {j \in DOMAIN calls : calls[j].op = "Del"}}

\* C35: a Delete on an internal page merges the updated child with a sibling
\* only when the child is at most PageSize/4 bytes (left sibling first, then
\* right, each only if the merged page fits); after a merge the Delete has
\* returned, both old sibling ids are freed, one merged page has taken their
\* place and the parent has one entry fewer (the tree has one page fewer).
C35_MergeRetiresBoth ==
    [][(DeleteStep /\ mergedIn(store'.calls)) =>
          /\ ~panicked'
          /\ freedIn(store'.calls) \cap allocated(store') = {}
          /\ Cardinality(allocated(store')) < Cardinality(allocated(store))]_vars

\* the depths at which the leaves below page id lie (the page itself is at
\* depth 1); an unbound id counts as depth 0
RECURSIVE leafDepths(_, _)
leafDepths(st, id) ==
    IF id \notin DOMAIN st.pages THEN {0}
    ELSE IF st.pages[id].btype = NodeTypeInternal
    THEN {d + 1 : d \in UNION {leafDepths(st, getPtr(st.pages[id], i)) :
                                   i \in 0..(st.pages[id].nkeys - 1)}}
    ELSE {1}

\* the tree has leaves, all at one depth
uniform(R, st) == Cardinality(leafDepths(st, R)) = 1
height(R, st) == CHOOSE d \in leafDepths(st, R) : TRUE

\* the Insert of this step splits the root: nodeSplit3 returns several pages
\* for the page treeInsert hands back
rootSplit ==
    nodeSplit3(treeInsert(storeGet(fresh(store), Root), storeRead(store, Root),
                          last'.key, last'.val).node).n > 1

\* C36: all leaves reachable from Root are at the same depth; the height
\* grows, by exactly one, only when an Insert splits the root; a Delete
\* changes the depth of no remaining leaf.
C36_DepthUniform ==
    [][/\ (~panicked /\ Root # 0) => uniform(Root, store)
       /\ (~panicked' /\ Root' # 0) => uniform(Root', store')
       /\ (~panicked' /\ Root # 0 /\ (InsertStep \/ DeleteStep)) =>
            /\ height(Root', store') \in {height(Root, store), height(Root, store) + 1}
            /\ height(Root', store') = height(Root, store) + 1 <=> (InsertStep /\ rootSplit)
            /\ DeleteStep => height(Root', store') = height(Root, store)]_vars

\* an Insert has split the root of a tree of two levels: the tree has three
\* levels now
C36_Witness ==
    /\ ~panicked
    /\ last.op = "Insert"
    /\ Root # 0
    /\ uniform(Root, store)
    /\ height(Root, store) = 3

\* the store is the same but for the call log, and only Get was called
onlyRead(st) ==
    /\ st.pages = store.pages
    /\ st.next = store.next
    /\ \A i \in DOMAIN st.calls : st.calls[i].op = "Get"

\* Search once more, on the store the first Search left
searchAgain(r, key) == BTreeSearch(Root, fresh(r.st), key)

\* C38: Search and Traverse are read-only: they call neither New nor Del,
\* leave Root and the content of every stored page as they were, so that a
\* second Search for the same key right after the first returns the same
\* result.
C38_ReadsChangeNothing ==
    /\ (read.op = "Search" /\ read.ok) =>
          \A r \in {BTreeSearch(Root, fresh(store), read.key)} :
              /\ onlyRead(r.st)
              /\ r.st.calls = read.calls
              /\ r.found = read.found /\ r.val = read.val
              /\ searchAgain(r, read.key).found = read.found
              /\ searchAgain(r, read.key).val = read.val
              /\ onlyRead(searchAgain(r, read.key).st)
    /\ (read.op = "Traverse" /\ read.ok) =>
          \A r \in {BTreeTraverse(Root, fresh(store))} :
              /\ onlyRead(r.st)
              /\ r.st.calls = read.calls
              /\ r.out = read.out

\* a Search has found a key in a tree of several pages
C38_Witness ==
    /\ read.op = "Search" /\ read.ok
    /\ read.found
    /\ Len(read.calls) >= 2

\* ------------------------------------------------------------------------
\* Concurrent callers of one facade handle, Close included, under fair
\* scheduling (db.go over storage.go)
\* ------------------------------------------------------------------------
\* number of facade calls made in a run
MaxLive == 3

LiveKeys == {UserKey(1)}
LiveVals == {ShortVal}
exclusive == {"Put", "Delete", "Close"}
shared == {"Get", "Traverse"}

\* goroutine g calls a method of the facade and reaches its Lock()/RLock()
LiveCall(g, op, key, val) ==
    /\ ~panicked
    /\ pc[g].at = "idle"
    /\ ops < MaxLive
    /\ ops' = ops + 1
    /\ pc' = [pc EXCEPT ![g] = [NoGo EXCEPT !.at = "waiting", !.op = op,
                                            !.key = IF op \in {"Traverse", "Close"}
                                                    THEN Empty ELSE key,
                                            !.val = IF op = "Put" THEN val ELSE Empty]]
    /\ UNCHANGED <<Root, store, last, read, ref, mu, unit, smu>>

\* db.mu.Lock() returns in g (Put, Delete, Close)
LiveLock(g) ==
    /\ ~panicked
    /\ pc[g].at = "waiting"
    /\ pc[g].op \in exclusive
    /\ canLock(mu)
    /\ mu' = [mu EXCEPT !.writer = g]
    /\ pc' = [pc EXCEPT ![g].at = "inside"]
    /\ UNCHANGED <<Root, store, ops, last, read, ref, unit, smu>>

\* db.mu.RLock() returns in g (Get, Traverse)
LiveRLock(g) ==
    /\ ~panicked
    /\ pc[g].at = "waiting"
    /\ pc[g].op \in shared
    /\ canRLock(mu)
    /\ mu' = [mu EXCEPT !.readers = @ \cup {g}]
    /\ pc' = [pc EXCEPT ![g].at = "inside"]
    /\ UNCHANGED <<Root, store, ops, last, read, ref, unit, smu>>

\* s.mu.Lock() returns in g: Storage.Write under the New callback of a Put
\* or a Delete, Storage.Close under Close
StorageLock(g) ==
    /\ ~panicked
    /\ pc[g].at = "inside"
    /\ pc[g].op \in exclusive
    /\ canLock(smu)
    /\ smu' = [smu EXCEPT !.writer = g]
    /\ pc' = [pc EXCEPT ![g].at = "storage"]
    /\ UNCHANGED <<Root, store, ops, last, read, ref, mu, unit>>

\* s.mu.RLock() returns in g: Storage.Read under the Get callback
StorageRLock(g) ==
    /\ ~panicked
    /\ pc[g].at = "inside"
    /\ pc[g].op \in shared
    /\ canRLock(smu)
    /\ smu' = [smu EXCEPT !.readers = @ \cup {g}]
    /\ pc' = [pc EXCEPT ![g].at = "storage"]
    /\ UNCHANGED <<Root, store, ops, last, read, ref, mu, unit>>

\* the storage lock is released as the storage method returns
released(g) == [smu EXCEPT !.writer = IF @ = g THEN 0 ELSE @, !.readers = @ \ {g}]

\* db.tree.Insert(key, value) inside Put
LivePut(g) ==
    /\ ~panicked
    /\ pc[g].at = "storage"
    /\ pc[g].op = "Put"
    /\ \E r \in {BTreeInsert(Root, fresh(store), pc[g].key, pc[g].val)} :
            /\ Root' = r.Root
            /\ store' = r.st
    /\ last' = [op |-> "Put", key |-> pc[g].key, val |-> pc[g].val]
    /\ ref' = [ref EXCEPT ![pc[g].key] = pc[g].val]
    /\ pc' = [pc EXCEPT ![g].at = "ran"]
    /\ smu' = released(g)
    /\ UNCHANGED <<ops, read, mu, unit>>

\* db.tree.Delete(key) inside Delete
LiveDelete(g) ==
    /\ ~panicked
    /\ pc[g].at = "storage"
    /\ pc[g].op = "Delete"
    /\ \E r \in {BTreeDelete(Root, fresh(store), pc[g].key)} :
            /\ Root' = r.Root
            /\ store' = r.st
    /\ last' = [op |-> "Delete", key |-> pc[g].key, val |-> Empty]
    /\ ref' = [ref EXCEPT ![pc[g].key] = Absent]
    /\ pc' = [pc EXCEPT ![g].at = "ran"]
    /\ smu' = released(g)
    /\ UNCHANGED <<ops, read, mu, unit>>

\* db.tree.Search(key) inside Get
LiveGet(g) ==
    /\ ~panicked
    /\ pc[g].at = "storage"
    /\ pc[g].op = "Get"
    /\ \E r \in {BTreeSearch(Root, fresh(store), pc[g].key)} :
            /\ pc' = [pc EXCEPT ![g].at = "ran", ![g].found = r.found, ![g].res = r.val]
            /\ store' = [store EXCEPT !.ok = r.st.ok]
    /\ smu' = released(g)
    /\ UNCHANGED <<Root, ops, last, read, ref, mu, unit>>

\* db.tree.Traverse(visit) inside Traverse; visit returns
LiveTraverse(g) ==
    /\ ~panicked
    /\ pc[g].at = "storage"
    /\ pc[g].op = "Traverse"
    /\ \E r \in {BTreeTraverse(Root, fresh(store))} :
            /\ pc' = [pc EXCEPT ![g].at = "ran", ![g].found = r.out # <<>>]
            /\ store' = [store EXCEPT !.ok = r.st.ok]
    /\ smu' = released(g)
    /\ UNCHANGED <<Root, ops, last, read, ref, mu, unit>>

\* db.storage.Close() inside Close
LiveClose(g) ==
    /\ ~panicked
    /\ pc[g].at = "storage"
    /\ pc[g].op = "Close"
    /\ store' = closeStore(store)
    /\ last' = [op |-> "Close", key |-> Empty, val |-> Empty]
    /\ pc' = [pc EXCEPT ![g].at = "ran"]
    /\ smu' = released(g)
    /\ UNCHANGED <<Root, ops, read, ref, mu, unit>>

\* the deferred db.mu.Unlock() runs and the call returns
LiveUnlock(g) ==
    /\ ~panicked
    /\ pc[g].at = "ran"
    /\ pc[g].op \in exclusive
    /\ mu' = [mu EXCEPT !.writer = 0]
    /\ pc' = [pc EXCEPT ![g] = NoGo]
    /\ UNCHANGED <<Root, store, ops, last, read, ref, unit, smu>>

\* the deferred db.mu.RUnlock() runs and the call returns
LiveRUnlock(g) ==
    /\ ~panicked
    /\ pc[g].at = "ran"
    /\ pc[g].op \in shared
    /\ mu' = [mu EXCEPT !.readers = @ \ {g}]
    /\ pc' = [pc EXCEPT ![g] = NoGo]
    /\ UNCHANGED <<Root, store, ops, last, read, ref, unit, smu>>

\* what goroutine g does once it has called: every step but the call itself
LiveStep(g) ==
    \/ LiveLock(g)
    \/ LiveRLock(g)
    \/ StorageLock(g)
    \/ StorageRLock(g)
    \/ LivePut(g)
    \/ LiveDelete(g)
    \/ LiveGet(g)
    \/ LiveTraverse(g)
    \/ LiveClose(g)
    \/ LiveUnlock(g)
    \/ LiveRUnlock(g)

NextLive ==
    \/ \E g \in G, op \in exclusive \cup shared, key \in LiveKeys, val \in LiveVals :
            LiveCall(g, op, key, val)
    \/ \E g \in G : LiveLock(g)
    \/ \E g \in G : LiveRLock(g)
    \/ \E g \in G : StorageLock(g)
    \/ \E g \in G : StorageRLock(g)
    \/ \E g \in G : LivePut(g)
    \/ \E g \in G : LiveDelete(g)
    \/ \E g \in G : LiveGet(g)
    \/ \E g \in G : LiveTraverse(g)
    \/ \E g \in G : LiveClose(g)
    \/ \E g \in G : LiveUnlock(g)
    \/ \E g \in G : LiveRUnlock(g)

\* Fair scheduling: a goroutine that can take a step takes it (the Go
\* scheduler runs every runnable goroutine), and a goroutine blocked in
\* Lock() or RLock() gets the lock if it is free again and again
\* (sync.RWMutex starves neither readers nor writers).
SpecLive ==
    /\ InitDB
    /\ [][NextLive]_vars
    /\ \A g \in G : WF_vars(LiveStep(g))
    /\ \A g \in G : SF_vars(LiveLock(g)) /\ SF_vars(LiveRLock(g))

\* a goroutine holds the storage lock only while it holds the facade lock,
\* and waits for the facade lock holding nothing
lockOrder ==
    \A g \in G :
        /\ (smu.writer = g \/ g \in smu.readers) => (mu.writer = g \/ g \in mu.readers)
        /\ pc[g].at = "waiting" => (smu.writer # g /\ g \notin smu.readers
                                    /\ mu.writer # g /\ g \notin mu.readers)

\* C39: with concurrent callers of Put, Get, Delete, Traverse and Close on
\* one facade handle every call eventually returns under fair scheduling:
\* the facade lock is always taken before the storage lock, never the
\* reverse, and no reachable state is a deadlock.
C39_EveryCallReturns ==
    /\ []lockOrder
    /\ \A g \in G : (pc[g].at = "waiting") ~> (pc[g].at = "idle")

\* the same, for the runs in which no callback aborts the process
returnsUnlessAborted ==
    /\ []lockOrder
    /\ \A g \in G : (pc[g].at = "waiting") ~> (pc[g].at = "idle" \/ panicked)

====
